---- MODULE Spec2Model ----
(***************************************************************************)
(* Model of the agentic payment operations control loop:                   *)
(*   reasoner.py  (deterministic hypothesis + external source),            *)
(*   decision.py  (decide),                                                *)
(*   executor.py  (execute / check_rollback / check_and_apply_approval),   *)
(*   agent.py     (run loop, run_cycle),                                    *)
(*   state_writer.py (pending_approval.json, control_state.json,           *)
(*                    _write_json / _read_json),                           *)
(*   dashboard.py (approve / reject buttons),                              *)
(*   learner.py   (outcome records), observer.py (buffer, p95 latency),    *)
(*   run.py       (event queue and sentinel).                              *)
(*                                                                         *)
(* Number encoding (exact arithmetic instead of binary floating point):    *)
(*   success rates             percent        0.85  -> 85                  *)
(*   latency                   milliseconds                                *)
(*   retry/attempt amplif.     hundredths     1.6   -> 160                 *)
(*   average cost              thousandths    0.05  -> 50                  *)
(*   confidence, uncertainty   thousandths    0.85  -> 850                 *)
(*   risk score                millionths     0.45  -> 450000              *)
(* Python None is the record None for optional records, the string "None" *)
(* for an optional target, and -1 for an optional cycle number.            *)
(***************************************************************************)
EXTENDS Integers, Sequences, FiniteSets, TLC

VARIABLES
    \* ---- Executor (executor.py:30-38) ----
    active_actions,        \* Executor._active_actions (the applied actions)
    baseline_metrics,      \* Executor._baseline_metrics
    rollback_log,          \* Executor._rollback_log
    pending_escalation,    \* Executor._pending_escalation
    \* ---- shared files (state_writer.py) ----
    pending_approval_file, \* state/pending_approval.json
    control_state_file,    \* state/control_state.json
    \* ---- Agent (agent.py:58-77) ----
    cycle_count,
    last_action_executed,
    pending_outcome,
    recent_causes,
    last_executed_action_key,
    last_executed_cycle,
    cooldown_until_cycle,
    last_written_action_key,
    last_executed_trace,
    last_decision_ts,
    last_decision_action_key,
    \* ---- Learner (learner.py:32-38) ----
    context_before_action, \* Learner._context_before_action
    action_pending,        \* Learner._action_pending
    outcomes,              \* Learner._outcomes
    action_stats,          \* Learner._action_stats
    \* ---- position and locals of the control thread (Agent.run / run_cycle) ----
    pc,                    \* "get" | "poll" | "decide" | "done" | "stopped"
    metrics,               \* local: metrics of the event being handled
    hypothesis,            \* local: hypothesis of the event being handled
    pending,               \* local of run_cycle: executor.get_escalation_state() at agent.py:157
    \* ---- environment ----
    clock,                 \* time.time(), whole seconds
    escalation,            \* dashboard.py local `escalation` (last control_state read)
    \* ---- history: the debounce fields as they were when run_cycle was entered ----
    cycle_entry,
    \* ---- history: for each (kind, target) applied in this run, by execute() or
    \* ---- by an approval, the cycle count and the method of its latest application ----
    exec_history,
    \* ---- history: the actions applied since the last event was evaluated, in order,
    \* ---- each with the method that applied it ----
    awaiting_outcome,
    \* ---- cycles started since the first run, over all restarts (bounds the model) ----
    cycles_started,
    \* ---- a direct call of a pure function: its arguments and its result ----
    fn_in,
    fn_out,
    \* ---- the controlled system: the actions the simulator was told to apply
    \* ---- through Executor._simulator_control (agent.py:80-93) ----
    controlled,
    \* ---- a method of the Executor or a function of state_writer followed
    \* ---- statement by statement: its name, the next statement and its
    \* ---- arguments, or None ----
    call,
    \* ---- the queue between the simulator thread and Agent.run (run.py:54):
    \* ---- each event stands as the window the Observer computes on it ----
    event_queue,
    \* ---- a published record and its reader (state_writer.py:41-65) ----
    state_file,            \* state/<name>.json: whether it exists, and its text
    tmp_file,              \* state/<name>.tmp: whether it exists, and its text
    read_result,           \* what the reader's last _read_json returned, with the record
                           \* published before and the record being written at that time
    \* ---- history: the record of the last write that returned ----
    published,
    \* ---- Observer (observer.py:19-27) ----
    buffer,                \* Observer._buffer
    window_size,           \* Observer.window_size
    \* ---- history: every event ingested, in arrival order ----
    ingested,
    \* ---- state/actions.json (state_writer.py:132-174): the latest decision
    \* ---- and the decision history ----
    actions_file

vars == << active_actions, baseline_metrics, rollback_log, pending_escalation,
           pending_approval_file, control_state_file,
           cycle_count, last_action_executed, pending_outcome, recent_causes,
           last_executed_action_key, last_executed_cycle, cooldown_until_cycle,
           last_written_action_key, last_executed_trace, last_decision_ts,
           last_decision_action_key,
           context_before_action, action_pending, outcomes, action_stats,
           pc, metrics, hypothesis, pending, clock, escalation, cycle_entry, exec_history,
           awaiting_outcome,
           cycles_started, fn_in, fn_out, controlled, call, event_queue,
           state_file, tmp_file, read_result, published, buffer, window_size, ingested,
           actions_file >>

executorVars == << active_actions, baseline_metrics, rollback_log, pending_escalation >>

agentVars == << cycle_count, last_action_executed, pending_outcome, recent_causes,
                last_executed_action_key, last_executed_cycle, cooldown_until_cycle,
                last_written_action_key, last_executed_trace, last_decision_ts,
                last_decision_action_key >>

learnerVars == << context_before_action, action_pending, outcomes, action_stats >>

localVars == << metrics, hypothesis, pending, cycle_entry >>

\* the variables of the components that are also exercised on their own
publishVars == << state_file, tmp_file, read_result, published >>

observerVars == << buffer, window_size, ingested >>

componentVars == << controlled, call, event_queue, publishVars, observerVars, actions_file >>

fnVars == << fn_in, fn_out, componentVars >>

programVars == << executorVars, pending_approval_file, control_state_file, agentVars,
                 learnerVars, pc, localVars, exec_history, awaiting_outcome, clock, escalation, cycles_started >>

-----------------------------------------------------------------------------
\* Bounds of the model

MaxCycles == 2

MaxClock == 1

MaxLongCycles == 5

\* decide() called directly: the largest rollback count and the longest list of
\* recent decisions handed to it in the context
MaxRollbackCount == 2

MaxRecentCauses == 2

\* the Learner called directly: the most outcome records it collects
MaxOutcomes == 1

\* the Executor followed statement by statement: the most actions applied to
\* the controlled system
MaxApplied == 2

\* Agent.run fed through the queue: the most items waiting in the queue and
\* the most decision cycles of a run
MaxQueue == 2

MaxRunCycles == 2

\* a published record: the parts in which json.dump hands its text to the file
MaxParts == 2

\* the Observer called directly: the largest window and the most events ingested
MaxWindow == 3

MaxIngested == 4

\* longest list of recent causes given to decide() in the risk checks (the
\* window of the risk accumulation is the last REPEATED_ISSUER_WINDOW = 5)
MaxRiskCauses == 6

\* cycles of a run in the check of the decision history
MaxHistoryCycles == 3

-----------------------------------------------------------------------------
\* Python None

None == [none |-> TRUE]

NoTarget == "None"

NoCycle == -1

NoKey == << "None", "None" >>

\* Hypothesis.cause = None (no label at all); the string "None" is str(None)
NoCause == "<None>"

-----------------------------------------------------------------------------
\* Program constants

AUTO_EXECUTE_RISK_THRESHOLD == 450000

ROLLBACK_SUCCESS_RATE_DROP == 8

ROLLBACK_LATENCY_INCREASE_FRACTION == 25

UNCERTAINTY_THRESHOLD == 500

MIN_CONFIDENCE_TO_ACT == 600

RISK_ACCUMULATION_SAME_CAUSE_COUNT == 2

DEBOUNCE_SEC == 3

COOLDOWN_CYCLES == 2

MAX_RECENT_CAUSES == 10

MAX_ACTIONS_HISTORY == 50

REPEATED_ISSUER_WINDOW == 5

RISK_BOOST_PER_REPEAT == 8

RISK_ACCUMULATION_CAP == 25

ROLLBACK_COUNT_FORCE_HUMAN == 2

SEVERE_DEGRADATION_SUCCESS_RATE == 65

UNCERTAINTY_HANDOVER_THRESHOLD == 500

MULTI_MERCHANT_DEGRADED_THRESHOLD == 2

MERCHANT_DEGRADED_SUCCESS_RATE == 75

HIGH_COST_ESCALATION_THRESHOLD == 50

HIGH_ATTEMPT_AMPLIFICATION == 160

SUCCESS_RATE_DEGRADATION_THRESHOLD == 75

P95_LATENCY_SPIKE_MS == 600

RETRY_AMPLIFICATION_STORM == 120

ATTEMPT_AMPLIFICATION_STORM == 150

COST_ESCALATION_THRESHOLD == 30

MIN_SAMPLE_FOR_ACT == 30

DEGRADED_MODE_SUCCESS_RATE == 78

NO_OP == "no_op"

REROUTE == "reroute"

RETRY_POLICY == "retry_policy"

SUPPRESS == "suppress"

SYSTEM_MODE_NORMAL == "NORMAL"

SYSTEM_MODE_DEGRADED == "DEGRADED"

SYSTEM_MODE_HUMAN_APPROVAL_REQUIRED == "HUMAN_APPROVAL_REQUIRED"

SYSTEM_MODE_COOLDOWN_ACTIVE == "COOLDOWN_ACTIVE"

OUTCOME_EXECUTED == "executed"

OUTCOME_BLOCKED == "blocked"

OUTCOME_SKIPPED_COOLDOWN == "skipped_cooldown"

OUTCOME_ROLLED_BACK == "rolled_back"

CAUSE_INSUFFICIENT_SIGNAL == "INSUFFICIENT_SIGNAL"

HELPED_SUCCESS_IMPROVEMENT == 3

HELPED_LATENCY_REDUCTION == 15

HARMFUL_COST_INCREASE == 40

HARMFUL_ATTEMPT_AMPLIFICATION == 160

MAX_OUTCOME_RECORDS == 500

\* observer.py:21, agent.py:570: window_size
DEFAULT_WINDOW_SIZE == 200

\* observer.py:77: the 0.95 of the p95 index, in hundredths
P95_FRACTION == 95

-----------------------------------------------------------------------------
\* Small helpers

Max(a, b) == IF a >= b THEN a ELSE b

Min(a, b) == IF a <= b THEN a ELSE b

\* s[-n:]
LastN(s, n) == IF Len(s) <= n THEN s ELSE SubSeq(s, Len(s) - n + 1, Len(s))

-----------------------------------------------------------------------------
\* Cause labels are free-form strings inspected by substring matching.
\* UpperContains(c, needle): needle in c.upper(), for the labels of the model.

UpperContains(c, needle) ==
    CASE c = "INSUFFICIENT_SIGNAL"      -> needle \in {"INSUFFICIENT_SIGNAL"}
      [] c = "Issuer_HDFC_Degradation"  -> needle \in {"ISSUER_", "_DEGRADATION", "DEGRADATION"}
      [] c = "Issuer_ICICI_Degradation" -> needle \in {"ISSUER_", "_DEGRADATION", "DEGRADATION"}
      [] c = "Retry_Storm"              -> needle \in {"RETRY_STORM"}
      [] c = "Retry_Storm_Detected"     -> needle \in {"RETRY_STORM"}
      [] c = "Latency_Spike"            -> needle \in {"LATENCY_SPIKE"}
      [] c = "General_Degradation"      -> needle \in {"GENERAL_DEGRADATION", "_DEGRADATION", "DEGRADATION"}
      [] OTHER                          -> FALSE

\* needle in c (case-sensitive), for an issuer name as needle
RawContains(c, needle) ==
    \/ c = "Issuer_HDFC_Degradation" /\ needle = "HDFC"
    \/ c = "Issuer_ICICI_Degradation" /\ needle = "ICICI"

\* "_".join(cause.replace("ISSUER_", "").replace("_DEGRADATION", "").split("_")) on c.upper()
ParsedIssuer(c) ==
    CASE c = "Issuer_HDFC_Degradation"  -> "HDFC"
      [] c = "Issuer_ICICI_Degradation" -> "ICICI"
      [] OTHER                          -> NoTarget

IssuerCause(i) == IF i = "HDFC" THEN "Issuer_HDFC_Degradation" ELSE "Issuer_ICICI_Degradation"

\* min(d.items(), key=lambda x: x[1])[0]   (d non-empty)
WorstKey(d) == CHOOSE k \in DOMAIN d : \A j \in DOMAIN d : d[k] <= d[j]

DegradedKeys(d, threshold) == { k \in DOMAIN d : d[k] < threshold }

-----------------------------------------------------------------------------
\* reasoner.py

Hyp(cause, confidence, uncertainty, source) ==
    [cause |-> cause, confidence |-> confidence, uncertainty |-> uncertainty, source |-> source]

\* error_distribution is a function error code -> percent of the window
MaxShare(err) == IF DOMAIN err = {} THEN 0
                 ELSE LET k == CHOOSE k \in DOMAIN err : \A j \in DOMAIN err : err[k] >= err[j]
                      IN err[k]

compute_uncertainty(cause, confidence, evidence_parts, m) ==
    IF evidence_parts = <<>> \/ cause \in {"Unknown", CAUSE_INSUFFICIENT_SIGNAL}
    THEN Min(1000, Max(1000 - confidence, 500))
    ELSE LET u1 == IF m.sample_count < 50 THEN 250 ELSE 0
             u2 == IF m.sample_count < 100 THEN 150 ELSE 0
             u3 == IF Cardinality(DegradedKeys(m.success_rate_by_issuer,
                                               SUCCESS_RATE_DEGRADATION_THRESHOLD)) > 1
                   THEN 300 ELSE 0
             u4 == IF Cardinality(DOMAIN m.error_distribution) > 3
                      /\ MaxShare(m.error_distribution) < 50
                   THEN 200 ELSE 0
         IN Min(1000, u1 + u2 + u3 + u4)

\* The running (cause, confidence, evidence_parts) of _heuristic_hypothesis
HeurIssuer(m) ==
    LET s0 == [cause |-> "Unknown", confidence |-> 0, evidence_parts |-> <<>>]
    IN IF DOMAIN m.success_rate_by_issuer # {}
          /\ m.success_rate_by_issuer[WorstKey(m.success_rate_by_issuer)]
               < SUCCESS_RATE_DEGRADATION_THRESHOLD
       THEN [cause |-> IssuerCause(WorstKey(m.success_rate_by_issuer)),
             confidence |-> 850, evidence_parts |-> << "issuer" >>]
       ELSE s0

HeurRetryStorm(m, s) ==
    IF m.retry_amplification >= RETRY_AMPLIFICATION_STORM /\ m.success_rate < 70
       /\ s.confidence < 500
    THEN [cause |-> "Retry_Storm", confidence |-> 800,
          evidence_parts |-> Append(s.evidence_parts, "retry")]
    ELSE s

HeurLatency(m, s) ==
    IF m.p95_latency_ms >= P95_LATENCY_SPIKE_MS
    THEN IF s.confidence < 500
         THEN [cause |-> "Latency_Spike", confidence |-> 750,
               evidence_parts |-> Append(s.evidence_parts, "p95")]
         ELSE [s EXCEPT !.evidence_parts = Append(@, "p95")]
    ELSE s

HeurGeneral(m, s) ==
    IF m.success_rate < SUCCESS_RATE_DEGRADATION_THRESHOLD /\ s.evidence_parts = <<>>
    THEN [cause |-> "General_Degradation", confidence |-> 700,
          evidence_parts |-> << "overall" >>]
    ELSE s

HeurAttemptStorm(m, s) ==
    IF m.attempt_amplification >= ATTEMPT_AMPLIFICATION_STORM /\ m.success_rate < 80
    THEN [cause |-> "Retry_Storm_Detected",
          confidence |-> IF m.average_estimated_cost >= COST_ESCALATION_THRESHOLD
                         THEN Min(950, 850 + 50) ELSE 850,
          evidence_parts |-> IF m.average_estimated_cost >= COST_ESCALATION_THRESHOLD
                             THEN << "attempts", "success", "cost" >>
                             ELSE << "attempts", "success" >>]
    ELSE s

heuristic_hypothesis(m) ==
    IF m.sample_count < MIN_SAMPLE_FOR_ACT
    THEN Hyp(CAUSE_INSUFFICIENT_SIGNAL, 0, 1000, "heuristic")
    ELSE LET s == HeurAttemptStorm(m, HeurGeneral(m, HeurLatency(m,
                      HeurRetryStorm(m, HeurIssuer(m)))))
             cause == IF s.cause = "Unknown" /\ s.confidence = 0
                      THEN CAUSE_INSUFFICIENT_SIGNAL ELSE s.cause
         IN Hyp(cause, s.confidence,
                compute_uncertainty(cause, s.confidence, s.evidence_parts, m),
                "heuristic")

\* llm_h: the answer of generate_hypothesis_llm: None, or a hypothesis whose
\* uncertainty may be missing (-1)
\* (variant: an answer with confidence 0 is accepted as well)
reason_accepting_zero_confidence(m, llm_h) ==
    IF llm_h # None /\ llm_h.confidence >= 0
    THEN IF llm_h.uncertainty = -1
         THEN [llm_h EXCEPT !.uncertainty =
                   compute_uncertainty(llm_h.cause, llm_h.confidence, << "evidence" >>, m)]
         ELSE llm_h
    ELSE heuristic_hypothesis(m)

\* The Hypothesis built for an answer without uncertainty takes cause,
\* confidence, evidence and source from the answer: it is the answer with its
\* uncertainty replaced.  [llm_h.evidence] is a list of one element whatever
\* the evidence text is.
reason(m, llm_h) ==
    IF llm_h # None /\ llm_h.confidence > 0
    THEN IF llm_h.uncertainty = -1
         THEN [llm_h EXCEPT !.uncertainty =
                   compute_uncertainty(llm_h.cause, llm_h.confidence, << "evidence" >>, m)]
         ELSE llm_h
    ELSE heuristic_hypothesis(m)

-----------------------------------------------------------------------------
\* decision.py

Action(action_type, target, requires_human_approval, risk_score) ==
    [action_type |-> action_type, target |-> target,
     requires_human_approval |-> requires_human_approval, risk_score |-> risk_score]

NoOpAction == Action(NO_OP, NoTarget, FALSE, 0)

DecisionTrace(h, action) == [hypothesis |-> h, action |-> action, risk_score |-> action.risk_score]

\* The call ends with an exception instead of a return value
Raised(exception) == [raised |-> exception]

BaseRisk(action_type) ==
    CASE action_type = RETRY_POLICY -> 25
      [] action_type = REROUTE      -> 55
      [] action_type = SUPPRESS     -> 60
      [] OTHER                      -> 50

\* _risk_score: base * (1 - confidence * 0.4) + risk_accumulation, clamped to [0, 1]
risk_score(h, action_type, risk_accumulation) ==
    IF action_type = NO_OP THEN 0
    ELSE Max(0, Min(1000000,
             BaseRisk(action_type) * (10000 - 4 * h.confidence) + risk_accumulation * 10000))

RECURSIVE CountRepeats(_, _)
CountRepeats(causes, target_issuer) ==
    IF causes = <<>> THEN 0
    ELSE (IF \/ Head(causes).target = target_issuer
             \/ Head(causes).target = NoTarget /\ RawContains(Head(causes).cause, target_issuer)
          THEN 1 ELSE 0) + CountRepeats(Tail(causes), target_issuer)

\* (variant: the boost of the repeats is not capped)
compute_risk_accumulation_uncapped(target_issuer, context) ==
    IF target_issuer = NoTarget THEN 0
    ELSE LET count == CountRepeats(LastN(context.recent_causes, REPEATED_ISSUER_WINDOW),
                                   target_issuer)
         IN IF count <= 1 THEN 0 ELSE (count - 1) * RISK_BOOST_PER_REPEAT

compute_risk_accumulation(target_issuer, context) ==
    IF target_issuer = NoTarget THEN 0
    ELSE LET count == CountRepeats(LastN(context.recent_causes, REPEATED_ISSUER_WINDOW),
                                   target_issuer)
         IN IF count <= 1 THEN 0
            ELSE Min(RISK_ACCUMULATION_CAP, (count - 1) * RISK_BOOST_PER_REPEAT)

\* (variant: the rollback count does not force the handover)
should_force_human_handover_ignoring_rollbacks(m, h, context) ==
    \/ m.success_rate < SEVERE_DEGRADATION_SUCCESS_RATE
    \/ m.average_estimated_cost >= HIGH_COST_ESCALATION_THRESHOLD
    \/ Cardinality(DegradedKeys(m.success_rate_by_merchant, MERCHANT_DEGRADED_SUCCESS_RATE))
         >= MULTI_MERCHANT_DEGRADED_THRESHOLD
    \/ h.uncertainty >= UNCERTAINTY_HANDOVER_THRESHOLD

should_force_human_handover(m, h, context) ==
    \/ m.success_rate < SEVERE_DEGRADATION_SUCCESS_RATE
    \/ context.rollback_count >= ROLLBACK_COUNT_FORCE_HUMAN
    \/ m.average_estimated_cost >= HIGH_COST_ESCALATION_THRESHOLD
    \/ Cardinality(DegradedKeys(m.success_rate_by_merchant, MERCHANT_DEGRADED_SUCCESS_RATE))
         >= MULTI_MERCHANT_DEGRADED_THRESHOLD
    \/ h.uncertainty >= UNCERTAINTY_HANDOVER_THRESHOLD

\* The action family chosen from the cause (decision.py:200-282), before the
\* final risk assignment
ProposedAction(m, h, context, force_human) ==
    IF UpperContains(h.cause, "ISSUER_") /\ UpperContains(h.cause, "_DEGRADATION")
    THEN LET parsed == ParsedIssuer(h.cause)
             target_issuer == IF parsed = NoTarget /\ DOMAIN m.success_rate_by_issuer # {}
                              THEN WorstKey(m.success_rate_by_issuer) ELSE parsed
         IN IF target_issuer # NoTarget
            THEN Action(REROUTE, target_issuer, force_human, 0)
            ELSE NoOpAction
    ELSE IF UpperContains(h.cause, "RETRY_STORM")
    THEN Action(RETRY_POLICY, NoTarget,
                force_human \/ m.average_estimated_cost >= HIGH_COST_ESCALATION_THRESHOLD
                            \/ m.attempt_amplification >= HIGH_ATTEMPT_AMPLIFICATION,
                0)
    ELSE IF UpperContains(h.cause, "LATENCY_SPIKE")
    THEN Action(SUPPRESS, "heavy_path", FALSE, 0)
    ELSE IF UpperContains(h.cause, "GENERAL_DEGRADATION") \/ UpperContains(h.cause, "DEGRADATION")
    THEN Action(RETRY_POLICY, NoTarget, FALSE, 0)
    ELSE NoOpAction

\* Variant of decide without the low-confidence guard
decide_without_confidence_guard(m, h, context) ==
    IF UpperContains(h.cause, "INSUFFICIENT_SIGNAL") THEN DecisionTrace(h, NoOpAction)
    ELSE IF h.cause = NoCause THEN Raised("AttributeError")
    ELSE LET force_human == should_force_human_handover(m, h, context)
             a0 == ProposedAction(m, h, context, force_human)
             a1 == [a0 EXCEPT
                      !.risk_score = risk_score(h, a0.action_type,
                                                compute_risk_accumulation(a0.target, context)),
                      !.requires_human_approval =
                          @ \/ (force_human /\ a0.action_type # NO_OP)]
             p == context.pending_approval
         IN IF p # None /\ a1.action_type # NO_OP
               /\ a1.action_type = p.action_type /\ a1.target = p.target
            THEN DecisionTrace(h, NoOpAction)
            ELSE DecisionTrace(h, a1)

\* Variant of decide whose thrashing guard compares the action kind only
decide_thrashing_by_kind(m, h, context) ==
    IF UpperContains(h.cause, "INSUFFICIENT_SIGNAL") THEN DecisionTrace(h, NoOpAction)
    ELSE IF h.confidence < MIN_CONFIDENCE_TO_ACT THEN DecisionTrace(h, NoOpAction)
    ELSE IF h.cause = NoCause THEN Raised("AttributeError")
    ELSE LET force_human == should_force_human_handover(m, h, context)
             a0 == ProposedAction(m, h, context, force_human)
             a1 == [a0 EXCEPT
                      !.risk_score = risk_score(h, a0.action_type,
                                                compute_risk_accumulation(a0.target, context)),
                      !.requires_human_approval =
                          @ \/ (force_human /\ a0.action_type # NO_OP)]
             p == context.pending_approval
         IN IF p # None /\ a1.action_type # NO_OP
               /\ a1.action_type = p.action_type
            THEN DecisionTrace(h, NoOpAction)
            ELSE DecisionTrace(h, a1)

\* decide: the DecisionTrace returned, or the exception raised by
\* hypothesis.cause.upper() (decision.py:197) when the cause is None; the
\* guard at decision.py:146 skips a None or empty cause
decide(m, h, context) ==
    IF UpperContains(h.cause, "INSUFFICIENT_SIGNAL") THEN DecisionTrace(h, NoOpAction)
    ELSE IF h.confidence < MIN_CONFIDENCE_TO_ACT THEN DecisionTrace(h, NoOpAction)
    ELSE IF h.cause = NoCause THEN Raised("AttributeError")
    ELSE LET force_human == should_force_human_handover(m, h, context)
             a0 == ProposedAction(m, h, context, force_human)
             a1 == [a0 EXCEPT
                      !.risk_score = risk_score(h, a0.action_type,
                                                compute_risk_accumulation(a0.target, context)),
                      !.requires_human_approval =
                          @ \/ (force_human /\ a0.action_type # NO_OP)]
             p == context.pending_approval
         IN IF p # None /\ a1.action_type # NO_OP
               /\ a1.action_type = p.action_type /\ a1.target = p.target
            THEN DecisionTrace(h, NoOpAction)
            ELSE DecisionTrace(h, a1)

-----------------------------------------------------------------------------
\* executor.py.  The operators work on a record w of the Executor's fields,
\* the pending_approval.json file and the commands sent to the controlled
\* system through _simulator_control in the current step.

World ==
    [active_actions |-> active_actions, baseline_metrics |-> baseline_metrics,
     rollback_log |-> rollback_log, pending_escalation |-> pending_escalation,
     file |-> pending_approval_file, sent |-> <<>>]

Command(cmd, action) == [cmd |-> cmd, action_type |-> action.action_type, target |-> action.target]

\* state_writer.read_pending_approval: the record of the file, or None when
\* the file is absent or empty or the read fails (_read_json returns {})
read_pending_approval(file, read_ok) == IF read_ok THEN file ELSE None

apply_action(w, action) ==
    IF \/ action.action_type = REROUTE /\ action.target # NoTarget
       \/ action.action_type = RETRY_POLICY
       \/ action.action_type = SUPPRESS
    THEN [w EXCEPT !.sent = Append(@, Command(action.action_type, action))]
    ELSE w

PendingRecord(action, why, status) ==
    [active |-> TRUE, action |-> action, action_type |-> action.action_type,
     target |-> action.target, risk_score |-> action.risk_score,
     reason |-> why, status |-> status]

set_pending_escalation(w, action, why) ==
    [w EXCEPT !.pending_escalation = PendingRecord(action, why, "pending"),
              !.file = PendingRecord(action, why, "pending")]

\* Variant of execute without the early return for a no-op
execute_noop_as_action(w, trace, current_metrics) ==
    LET action == trace.action IN
    IF action.requires_human_approval = TRUE
    THEN [w |-> set_pending_escalation(w, action, "Human approval required (cost/retry guardrail)"),
          executed |-> FALSE]
    ELSE IF action.risk_score >= AUTO_EXECUTE_RISK_THRESHOLD
    THEN [w |-> set_pending_escalation(w, action, "High risk; human approval required"),
          executed |-> FALSE]
    ELSE LET w1 == IF w.active_actions = <<>>
                   THEN [w EXCEPT !.baseline_metrics = current_metrics] ELSE w
             w2 == apply_action(w1, action)
         IN [w |-> [w2 EXCEPT !.active_actions = Append(@, action)], executed |-> TRUE]

\* Variant of execute that escalates only above the threshold (risk > 0.45)
execute_above_threshold(w, trace, current_metrics) ==
    LET action == trace.action IN
    IF action.action_type = NO_OP
    THEN [w |-> w, executed |-> TRUE]
    ELSE IF action.requires_human_approval = TRUE
    THEN [w |-> set_pending_escalation(w, action, "Human approval required (cost/retry guardrail)"),
          executed |-> FALSE]
    ELSE IF action.risk_score > AUTO_EXECUTE_RISK_THRESHOLD
    THEN [w |-> set_pending_escalation(w, action, "High risk; human approval required"),
          executed |-> FALSE]
    ELSE LET w1 == IF w.active_actions = <<>>
                   THEN [w EXCEPT !.baseline_metrics = current_metrics] ELSE w
             w2 == apply_action(w1, action)
         IN [w |-> [w2 EXCEPT !.active_actions = Append(@, action)], executed |-> TRUE]

\* Variant of execute that stores the baseline on every application
execute_overwriting_baseline(w, trace, current_metrics) ==
    LET action == trace.action IN
    IF action.action_type = NO_OP
    THEN [w |-> w, executed |-> TRUE]
    ELSE IF action.requires_human_approval = TRUE
    THEN [w |-> set_pending_escalation(w, action, "Human approval required (cost/retry guardrail)"),
          executed |-> FALSE]
    ELSE IF action.risk_score >= AUTO_EXECUTE_RISK_THRESHOLD
    THEN [w |-> set_pending_escalation(w, action, "High risk; human approval required"),
          executed |-> FALSE]
    ELSE LET w1 == [w EXCEPT !.baseline_metrics = current_metrics]
             w2 == apply_action(w1, action)
         IN [w |-> [w2 EXCEPT !.active_actions = Append(@, action)], executed |-> TRUE]

\* Variant of execute that reports an escalated proposal as executed
execute_escalation_as_executed(w, trace, current_metrics) ==
    LET action == trace.action IN
    IF action.action_type = NO_OP
    THEN [w |-> w, executed |-> TRUE]
    ELSE IF action.requires_human_approval = TRUE
    THEN [w |-> set_pending_escalation(w, action, "Human approval required (cost/retry guardrail)"),
          executed |-> TRUE]
    ELSE IF action.risk_score >= AUTO_EXECUTE_RISK_THRESHOLD
    THEN [w |-> set_pending_escalation(w, action, "High risk; human approval required"),
          executed |-> TRUE]
    ELSE LET w1 == IF w.active_actions = <<>>
                   THEN [w EXCEPT !.baseline_metrics = current_metrics] ELSE w
             w2 == apply_action(w1, action)
         IN [w |-> [w2 EXCEPT !.active_actions = Append(@, action)], executed |-> TRUE]

\* Executor.execute: [w, executed]
execute(w, trace, current_metrics) ==
    LET action == trace.action IN
    IF action.action_type = NO_OP
    THEN [w |-> w, executed |-> TRUE]
    ELSE IF action.requires_human_approval = TRUE
    THEN [w |-> set_pending_escalation(w, action, "Human approval required (cost/retry guardrail)"),
          executed |-> FALSE]
    ELSE IF action.risk_score >= AUTO_EXECUTE_RISK_THRESHOLD
    THEN [w |-> set_pending_escalation(w, action, "High risk; human approval required"),
          executed |-> FALSE]
    ELSE LET w1 == IF w.active_actions = <<>>
                   THEN [w EXCEPT !.baseline_metrics = current_metrics] ELSE w
             w2 == apply_action(w1, action)
         IN [w |-> [w2 EXCEPT !.active_actions = Append(@, action)], executed |-> TRUE]

success_dropped(base, cur) == base.success_rate - cur.success_rate >= ROLLBACK_SUCCESS_RATE_DROP

latency_increased(base, cur) ==
    /\ base.p95_latency_ms > 0
    /\ (cur.p95_latency_ms - base.p95_latency_ms) * 100
          >= ROLLBACK_LATENCY_INCREASE_FRACTION * base.p95_latency_ms

RollbackMsg(action, base, cur) ==
    [action_type |-> action.action_type, success_drop |-> success_dropped(base, cur),
     latency_inc |-> latency_increased(base, cur)]

\* Variant of check_rollback that reverts the actions but keeps the baseline
check_rollback_keeping_baseline(w, current_metrics) ==
    IF w.active_actions = <<>> \/ w.baseline_metrics = None
    THEN [w |-> w, rollbacks |-> <<>>]
    ELSE LET base == w.baseline_metrics
             cur == current_metrics
         IN IF success_dropped(base, cur) \/ latency_increased(base, cur)
            THEN LET msgs == [i \in 1..Len(w.active_actions) |->
                                 RollbackMsg(w.active_actions[i], base, cur)]
                     cmds == [i \in 1..Len(w.active_actions) |->
                                 Command("rollback", w.active_actions[i])]
                 IN [w |-> [w EXCEPT !.sent = @ \o cmds,
                                     !.rollback_log = @ \o msgs,
                                     !.active_actions = <<>>],
                     rollbacks |-> msgs]
            ELSE [w |-> w, rollbacks |-> <<>>]

\* Variant of check_rollback that reverts only the most recent action
check_rollback_last_only(w, current_metrics) ==
    IF w.active_actions = <<>> \/ w.baseline_metrics = None
    THEN [w |-> w, rollbacks |-> <<>>]
    ELSE LET base == w.baseline_metrics
             cur == current_metrics
             last == w.active_actions[Len(w.active_actions)]
         IN IF success_dropped(base, cur) \/ latency_increased(base, cur)
            THEN [w |-> [w EXCEPT !.sent = Append(@, Command("rollback", last)),
                                  !.rollback_log = Append(@, RollbackMsg(last, base, cur)),
                                  !.active_actions = <<>>,
                                  !.baseline_metrics = None],
                  rollbacks |-> << RollbackMsg(last, base, cur) >>]
            ELSE [w |-> w, rollbacks |-> <<>>]

\* Executor.check_rollback: [w, rollbacks]
check_rollback(w, current_metrics) ==
    IF w.active_actions = <<>> \/ w.baseline_metrics = None
    THEN [w |-> w, rollbacks |-> <<>>]
    ELSE LET base == w.baseline_metrics
             cur == current_metrics
         IN IF success_dropped(base, cur) \/ latency_increased(base, cur)
            THEN LET msgs == [i \in 1..Len(w.active_actions) |->
                                 RollbackMsg(w.active_actions[i], base, cur)]
                     cmds == [i \in 1..Len(w.active_actions) |->
                                 Command("rollback", w.active_actions[i])]
                 IN [w |-> [w EXCEPT !.sent = @ \o cmds,
                                     !.rollback_log = @ \o msgs,
                                     !.active_actions = <<>>,
                                     !.baseline_metrics = None],
                     rollbacks |-> msgs]
            ELSE [w |-> w, rollbacks |-> <<>>]

NoApproval(w) == [w |-> w, processed |-> FALSE, msg |-> "None", action |-> None]

\* Variant of the approval branch that keeps the baseline it had
ApprovalKeepingBaseline(w, m, read_ok) ==
    LET persisted == read_pending_approval(w.file, read_ok) IN
    IF persisted = None
    THEN NoApproval([w EXCEPT !.pending_escalation = None])
    ELSE IF persisted.status = "approved"
    THEN LET action == persisted.action
             w1 == apply_action(w, action)
         IN [w |-> [w1 EXCEPT !.active_actions = Append(@, action),
                              !.file = None,
                              !.pending_escalation = None],
             processed |-> TRUE, msg |-> "APPROVED", action |-> action]
    ELSE IF persisted.status = "rejected"
    THEN [w |-> [w EXCEPT !.file = None, !.pending_escalation = None],
          processed |-> TRUE, msg |-> "REJECTED", action |-> None]
    ELSE NoApproval(w)

\* Variant of the rejection branch that forgets the escalation in memory only
ApprovalRejectKeepingRecord(w, m, read_ok) ==
    LET persisted == read_pending_approval(w.file, read_ok) IN
    IF persisted = None
    THEN NoApproval([w EXCEPT !.pending_escalation = None])
    ELSE IF persisted.status = "approved"
    THEN LET action == persisted.action
             w1 == apply_action([w EXCEPT !.baseline_metrics = m], action)
         IN [w |-> [w1 EXCEPT !.active_actions = Append(@, action),
                              !.file = None,
                              !.pending_escalation = None],
             processed |-> TRUE, msg |-> "APPROVED", action |-> action]
    ELSE IF persisted.status = "rejected"
    THEN [w |-> [w EXCEPT !.pending_escalation = None],
          processed |-> TRUE, msg |-> "REJECTED", action |-> None]
    ELSE NoApproval(w)

\* executor.py:226-277, with the in-memory slot already filled.  The Action
\* is rebuilt from the record's "action" dict with the same type, target,
\* params (which carry the approval flag) and risk score.
ApprovalAfterSync(w, m, read_ok) ==
    LET persisted == read_pending_approval(w.file, read_ok) IN
    IF persisted = None
    THEN NoApproval([w EXCEPT !.pending_escalation = None])
    ELSE IF persisted.status = "approved"
    THEN LET action == persisted.action
             w1 == apply_action([w EXCEPT !.baseline_metrics = m], action)
         IN [w |-> [w1 EXCEPT !.active_actions = Append(@, action),
                              !.file = None,
                              !.pending_escalation = None],
             processed |-> TRUE, msg |-> "APPROVED", action |-> action]
    ELSE IF persisted.status = "rejected"
    THEN [w |-> [w EXCEPT !.file = None, !.pending_escalation = None],
          processed |-> TRUE, msg |-> "REJECTED", action |-> None]
    ELSE NoApproval(w)

\* Executor.check_and_apply_approval: [w, processed, msg, action]
\* read1_ok, read2_ok: whether the reads at executor.py:220 and :227 succeed
check_and_apply_approval(w, m, read1_ok, read2_ok) ==
    IF w.pending_escalation = None
    THEN LET disk_state == read_pending_approval(w.file, read1_ok)
         IN IF disk_state # None /\ disk_state.status = "pending"
            THEN ApprovalAfterSync([w EXCEPT !.pending_escalation = disk_state], m, read2_ok)
            ELSE NoApproval(w)
    ELSE ApprovalAfterSync(w, m, read2_ok)

\* Whether a read of the existing record fails during check_and_apply_approval
\* (executor.py:220 is reached without an in-memory slot, executor.py:227
\* with one); _read_json then returns {} and the caller sees no record
read_failed(w, read1_ok, read2_ok) ==
    /\ w.file # None
    /\ IF w.pending_escalation = None
       THEN ~read1_ok \/ (w.file.status = "pending" /\ ~read2_ok)
       ELSE ~read2_ok

\* Executor._sync_pending_state (called by __init__)
sync_pending_state(file, read_ok) ==
    LET p == read_pending_approval(file, read_ok)
    IN IF p # None /\ p.status = "pending" THEN p ELSE None

\* Executor.get_escalation_state
get_escalation_state(w) == w.pending_escalation

-----------------------------------------------------------------------------
\* learner.py.  The operators work on a record l of the Learner's fields.

Learner ==
    [context_before_action |-> context_before_action, action_pending |-> action_pending,
     outcomes |-> outcomes, action_stats |-> action_stats]

\* Learner.__init__
NewLearner ==
    [context_before_action |-> None, action_pending |-> None,
     outcomes |-> <<>>, action_stats |-> << >>]

metrics_snapshot(m) ==
    [success_rate |-> m.success_rate, p95_latency_ms |-> m.p95_latency_ms,
     retry_amplification |-> m.retry_amplification, sample_count |-> m.sample_count,
     average_estimated_cost |-> m.average_estimated_cost,
     attempt_amplification |-> m.attempt_amplification]

\* Variant of _evaluate_helped that judges a rolled-back action by its metrics
evaluate_helped_ignoring_rollback(before, after, rollback_applied) ==
    LET sr_improved == after.success_rate - before.success_rate
                          >= HELPED_SUCCESS_IMPROVEMENT
        lat_before == before.p95_latency_ms
        lat_after == after.p95_latency_ms
        lat_reduced == /\ lat_before > 0
                       /\ (lat_before - lat_after) * 100
                             >= HELPED_LATENCY_REDUCTION * lat_before
    IN IF after.average_estimated_cost >= HARMFUL_COST_INCREASE
       THEN [helped |-> FALSE, learning_score |-> -1]
       ELSE IF after.attempt_amplification >= HARMFUL_ATTEMPT_AMPLIFICATION
       THEN [helped |-> FALSE, learning_score |-> -1]
       ELSE IF sr_improved \/ lat_reduced
       THEN [helped |-> TRUE, learning_score |-> 1]
       ELSE [helped |-> FALSE, learning_score |-> 0]

\* _evaluate_helped: [helped, learning_score], learning_score in {-1, 0, 1}
evaluate_helped(before, after, rollback_applied) ==
    IF rollback_applied THEN [helped |-> FALSE, learning_score |-> -1]
    ELSE LET sr_improved == after.success_rate - before.success_rate
                               >= HELPED_SUCCESS_IMPROVEMENT
             lat_before == before.p95_latency_ms
             lat_after == after.p95_latency_ms
             lat_reduced == /\ lat_before > 0
                            /\ (lat_before - lat_after) * 100
                                  >= HELPED_LATENCY_REDUCTION * lat_before
         IN IF after.average_estimated_cost >= HARMFUL_COST_INCREASE
            THEN [helped |-> FALSE, learning_score |-> -1]
            ELSE IF after.attempt_amplification >= HARMFUL_ATTEMPT_AMPLIFICATION
            THEN [helped |-> FALSE, learning_score |-> -1]
            ELSE IF sr_improved \/ lat_reduced
            THEN [helped |-> TRUE, learning_score |-> 1]
            ELSE [helped |-> FALSE, learning_score |-> 0]

OutcomeRecord(context_snapshot, action, outcome_metrics, helped, rollback_applied) ==
    [context_snapshot |-> context_snapshot, action |-> action,
     outcome_metrics |-> outcome_metrics, helped |-> helped,
     rollback_applied |-> rollback_applied]

NoStats == [helped |-> 0, hurt |-> 0, neutral |-> 0]

\* the counter of _action_stats[a_type] that a learning score increments
ScoreClass(learning_score) ==
    IF learning_score > 0 THEN "helped"
    ELSE IF learning_score < 0 THEN "hurt"
    ELSE "neutral"

\* _action_stats after one outcome of a_type with the given score
CountOutcome(stats, a_type, learning_score) ==
    LET old == IF a_type \in DOMAIN stats THEN stats[a_type] ELSE NoStats
        class == ScoreClass(learning_score)
    IN [t \in DOMAIN stats \cup { a_type } |->
           IF t = a_type THEN [old EXCEPT ![class] = @ + 1] ELSE stats[t]]

\* Learner.record_decision_context
record_decision_context(l, m, action) ==
    IF action.action_type = NO_OP THEN l
    ELSE [l EXCEPT !.context_before_action = metrics_snapshot(m),
                   !.action_pending = action]

\* Learner.record_outcome
record_outcome(l, metrics_after, rollback_applied) ==
    IF l.context_before_action = None \/ l.action_pending = None THEN l
    ELSE LET outcome_metrics == metrics_snapshot(metrics_after)
             e == evaluate_helped(l.context_before_action, outcome_metrics, rollback_applied)
             record == OutcomeRecord(l.context_before_action, l.action_pending,
                                     outcome_metrics, e.helped, rollback_applied)
         IN [context_before_action |-> None,
             action_pending |-> None,
             outcomes |-> LastN(Append(l.outcomes, record), MAX_OUTCOME_RECORDS),
             action_stats |-> CountOutcome(l.action_stats, l.action_pending.action_type,
                                           e.learning_score)]

\* Learner.cancel_pending
cancel_pending(l) == [l EXCEPT !.context_before_action = None, !.action_pending = None]

\* get_learning_state reads the last 20 outcomes
LEARNING_STATE_RECENT == 20

\* Learner.get_recent_outcomes
get_recent_outcomes(l, n) == LastN(l.outcomes, n)

\* Learner.get_learning_state: the helped / hurt / neutral counts of the
\* dashboard (get_action_effectiveness_stats of the packaged copy counts alike)
get_learning_state(l) ==
    LET recent == get_recent_outcomes(l, LEARNING_STATE_RECENT)
        helped == Cardinality({ i \in DOMAIN recent :
                                  recent[i].helped /\ ~recent[i].rollback_applied })
        hurt == Cardinality({ i \in DOMAIN recent : recent[i].rollback_applied })
    IN [helped |-> helped, hurt |-> hurt, neutral |-> Len(recent) - helped - hurt]

-----------------------------------------------------------------------------
\* Inputs: the window metrics an ingested event produces (observer.py
\* get_partial_metrics) and the answer of the external hypothesis source.

Metrics(sample_count, success_rate, p95, retry_amp, attempt_amp, cost, by_issuer, by_merchant) ==
    [sample_count |-> sample_count, success_rate |-> success_rate, p95_latency_ms |-> p95,
     retry_amplification |-> retry_amp, attempt_amplification |-> attempt_amp,
     average_estimated_cost |-> cost, success_rate_by_issuer |-> by_issuer,
     success_rate_by_merchant |-> by_merchant,
     error_distribution |-> [none |-> 90, issuer_unavailable |-> 10]]

Healthy == [HDFC |-> 95, ICICI |-> 94]

\* a window too small to act on; its tail latency is exactly 25% above, and its
\* success rate exactly 0.08 above, that of the degraded-issuer window
MetricsLowSample == Metrics(10, 93, 250, 10, 100, 10, Healthy, [m1 |-> 93])

\* one issuer degraded (the scenario of the specification)
MetricsIssuerHDFC == Metrics(200, 85, 200, 10, 100, 10, [HDFC |-> 40, ICICI |-> 95], [m1 |-> 85, m2 |-> 86])

\* severe degradation: forced human handover; no latency measured (p95 = 0)
MetricsSevere == Metrics(200, 60, 0, 10, 100, 10, [HDFC |-> 30, ICICI |-> 90], [m1 |-> 60, m2 |-> 80])

MetricsSet == { MetricsLowSample, MetricsIssuerHDFC, MetricsSevere }

\* a latency spike with every issuer healthy
MetricsLatencySpike == Metrics(200, 93, 600, 10, 100, 10, Healthy, [m1 |-> 93])

MetricsLongSet == MetricsSet \cup { MetricsLatencySpike }

\* The external hypothesis source: no answer, or an answer with or without an
\* uncertainty.  With SUPPRESS (base risk 0.6) confidence 0.75 gives risk 0.42
\* and confidence 0.62 gives risk 0.4512; on these inputs the exact arithmetic
\* of the model and the double arithmetic of the code agree on every comparison.
LlmAnswers == { None,
                Hyp("Latency_Spike", 750, -1, "llm"),
                Hyp("Latency_Spike", 620, -1, "llm"),
                Hyp("General_Degradation", 400, 200, "llm") }

-----------------------------------------------------------------------------
\* agent.py

ActionKey(action) == << action.action_type, action.target >>

WrittenKey(action_type, target, outcome) == << action_type, target, outcome >>

CauseEntry(cause, target) == [cause |-> cause, target |-> target]

\* Agent._risk_accumulation_signal
risk_accumulation_signal(causes) ==
    /\ Len(causes) >= RISK_ACCUMULATION_SAME_CAUSE_COUNT
    /\ LET recent == LastN(causes, 5)
       IN \E i \in 1..Len(recent) :
             Cardinality({ j \in 1..Len(recent) : recent[j] = recent[i] })
                >= RISK_ACCUMULATION_SAME_CAUSE_COUNT

\* Variant of _should_trigger_reason_decide that takes any recorded decision
\* as a risk-accumulation signal
should_trigger_on_any_cause(h, causes) ==
    \/ h.uncertainty >= UNCERTAINTY_THRESHOLD
    \/ h.confidence >= MIN_CONFIDENCE_TO_ACT
    \/ causes # <<>>

\* Agent._should_trigger_reason_decide
should_trigger_reason_decide(h, causes) ==
    \/ h.uncertainty >= UNCERTAINTY_THRESHOLD
    \/ h.confidence >= MIN_CONFIDENCE_TO_ACT
    \/ risk_accumulation_signal(causes)

\* Variant of _write_control_state that tests the cooldown before the escalation
ControlState_cooldown_first(esc, m, cooldown_active, until, cycle) ==
    [system_mode |->
        IF cooldown_active \/ (until # NoCycle /\ cycle <= until)
        THEN SYSTEM_MODE_COOLDOWN_ACTIVE
        ELSE IF esc # None /\ esc.active THEN SYSTEM_MODE_HUMAN_APPROVAL_REQUIRED
        ELSE IF m.success_rate < DEGRADED_MODE_SUCCESS_RATE THEN SYSTEM_MODE_DEGRADED
        ELSE SYSTEM_MODE_NORMAL,
     escalation |-> esc]

\* Agent._write_control_state: the record written to control_state.json
ControlState(esc, m, cooldown_active, until, cycle) ==
    [system_mode |->
        IF esc # None /\ esc.active THEN SYSTEM_MODE_HUMAN_APPROVAL_REQUIRED
        ELSE IF cooldown_active \/ (until # NoCycle /\ cycle <= until)
             THEN SYSTEM_MODE_COOLDOWN_ACTIVE
        ELSE IF m.success_rate < DEGRADED_MODE_SUCCESS_RATE THEN SYSTEM_MODE_DEGRADED
        ELSE SYSTEM_MODE_NORMAL,
     escalation |-> esc]

\* The Executor, the Observer and the Agent as create_agent(window_size)
\* builds them over the decision file an earlier run left; no other file
\* written
AgentConstructedOver(size, file) ==
    /\ active_actions = <<>>
    /\ baseline_metrics = None
    /\ rollback_log = <<>>
    /\ pending_escalation = None
    /\ pending_approval_file = None
    /\ control_state_file = None
    /\ cycle_count = 0
    /\ last_action_executed = FALSE
    /\ pending_outcome = FALSE
    /\ recent_causes = <<>>
    /\ last_executed_action_key = NoKey
    /\ last_executed_cycle = -1
    /\ cooldown_until_cycle = NoCycle
    /\ last_written_action_key = NoKey
    /\ last_executed_trace = None
    /\ last_decision_ts = 0
    /\ last_decision_action_key = NoKey
    /\ pc = "get"
    /\ metrics = None
    /\ hypothesis = None
    /\ pending = None
    /\ clock = 0
    /\ escalation = None
    /\ cycle_entry = None
    /\ exec_history = {}
    /\ awaiting_outcome = <<>>
    /\ cycles_started = 0
    /\ context_before_action = None
    /\ action_pending = None
    /\ outcomes = <<>>
    /\ action_stats = << >>
    /\ controlled = <<>>
    /\ call = None
    /\ event_queue = <<>>
    /\ state_file = [exists |-> FALSE, text |-> <<>>]
    /\ tmp_file = [exists |-> FALSE, text |-> <<>>]
    /\ read_result = None
    /\ published = None
    /\ buffer = <<>>
    /\ window_size = size
    /\ ingested = <<>>
    /\ actions_file = file

\* state/actions.json does not exist: _read_json returns {}
NoActionsFile == [latest |-> None, history |-> <<>>]

\* create_agent(window_size) on a state directory without decision file
AgentConstructedWith(size) == AgentConstructedOver(size, NoActionsFile)

\* create_agent() with its default window size
AgentConstructed == AgentConstructedWith(DEFAULT_WINDOW_SIZE)

Init ==
    /\ AgentConstructed
    /\ fn_in = None
    /\ fn_out = None

SetExecutor(w) ==
    /\ active_actions' = w.active_actions
    /\ baseline_metrics' = w.baseline_metrics
    /\ rollback_log' = w.rollback_log
    /\ pending_escalation' = w.pending_escalation
    /\ pending_approval_file' = w.file

SetLearner(l) ==
    /\ context_before_action' = l.context_before_action
    /\ action_pending' = l.action_pending
    /\ outcomes' = l.outcomes
    /\ action_stats' = l.action_stats

\* The locals of run() and run_cycle() go out of scope when the iteration ends
ClearLocals ==
    /\ metrics' = None
    /\ hypothesis' = None
    /\ pending' = None
    /\ cycle_entry' = None

\* The fields that make up the debounce state of the Agent
DebounceState ==
    [last_executed_action_key |-> last_executed_action_key,
     last_executed_cycle |-> last_executed_cycle,
     last_decision_ts |-> last_decision_ts,
     cooldown_until_cycle |-> cooldown_until_cycle]

\* an entry of awaiting_outcome: method is "execute" or "approval"
Applied(action, method) == [action |-> action, method |-> method]

\* exec_history after (kind, target) key was applied in the current cycle by
\* method: "execute" or "approval"
ExecutedBy(history, key, cycle, method) ==
    { e \in history : e.key # key } \cup { [key |-> key, cycle |-> cycle, method |-> method] }

Executed(history, key, cycle) == ExecutedBy(history, key, cycle, "execute")

\* Variant of the event step that compares the metrics of every event with
\* the baseline, whether or not an action was applied since the last event
HandleEvent_checking_every_event(m, llm_h) ==
    /\ pc = "get"
    /\ LET h == reason(m, llm_h)
           r == check_rollback(World, m)
           rolled == r.rollbacks # <<>> /\ last_executed_trace # None
           trigger == should_trigger_reason_decide(h, recent_causes)
       IN /\ metrics' = IF trigger THEN m ELSE None
          /\ hypothesis' = IF trigger THEN h ELSE None
          /\ cycle_entry' = IF trigger THEN DebounceState ELSE None
          /\ SetExecutor(r.w)
          /\ SetLearner(IF pending_outcome /\ last_action_executed
                        THEN record_outcome(Learner, m, r.rollbacks # <<>>)
                        ELSE Learner)
          /\ pending_outcome' = FALSE
          /\ last_written_action_key' =
                IF rolled THEN WrittenKey(last_executed_trace.action_type,
                                          last_executed_trace.target, OUTCOME_ROLLED_BACK)
                ELSE last_written_action_key
          /\ last_executed_trace' = IF rolled THEN None ELSE last_executed_trace
          /\ IF trigger
             THEN /\ pc' = "poll"
                  /\ cycle_count' = cycle_count + 1
                  /\ cycles_started' = cycles_started + 1
                  /\ last_action_executed' = FALSE
                  /\ cooldown_until_cycle' =
                        IF cooldown_until_cycle # NoCycle /\ cycle_count + 1 > cooldown_until_cycle
                        THEN NoCycle ELSE cooldown_until_cycle
                  /\ pending' = get_escalation_state(r.w)
             ELSE /\ pc' = "get"
                  /\ UNCHANGED << cycle_count, last_action_executed, cooldown_until_cycle,
                                  pending, cycles_started >>
    /\ UNCHANGED << control_state_file, recent_causes, last_executed_action_key,
                    last_executed_cycle, last_decision_ts, last_decision_action_key,
                    clock, escalation, exec_history >>
    /\ awaiting_outcome' = <<>>

\* Agent.run, one dequeued event (agent.py:508-554) up to the start of
\* run_cycle (agent.py:137-162): ingest, reason, check_rollback_and_learn,
\* trigger test, cycle prelude.
HandleEvent(m, llm_h) ==
    /\ pc = "get"
    /\ LET h == reason(m, llm_h)
           r == IF pending_outcome THEN check_rollback(World, m)
                ELSE [w |-> World, rollbacks |-> <<>>]
           rolled == r.rollbacks # <<>> /\ last_executed_trace # None
           trigger == should_trigger_reason_decide(h, recent_causes)
       IN /\ metrics' = IF trigger THEN m ELSE None
          /\ hypothesis' = IF trigger THEN h ELSE None
          /\ cycle_entry' = IF trigger THEN DebounceState ELSE None
          /\ SetExecutor(r.w)
          /\ SetLearner(IF pending_outcome /\ last_action_executed
                        THEN record_outcome(Learner, m, r.rollbacks # <<>>)
                        ELSE Learner)
          /\ pending_outcome' = FALSE
          /\ last_written_action_key' =
                IF rolled THEN WrittenKey(last_executed_trace.action_type,
                                          last_executed_trace.target, OUTCOME_ROLLED_BACK)
                ELSE last_written_action_key
          /\ last_executed_trace' = IF rolled THEN None ELSE last_executed_trace
          /\ IF trigger
             THEN /\ pc' = "poll"
                  /\ cycle_count' = cycle_count + 1
                  /\ cycles_started' = cycles_started + 1
                  /\ last_action_executed' = FALSE
                  /\ cooldown_until_cycle' =
                        IF cooldown_until_cycle # NoCycle /\ cycle_count + 1 > cooldown_until_cycle
                        THEN NoCycle ELSE cooldown_until_cycle
                  /\ pending' = get_escalation_state(r.w)
             ELSE /\ pc' = "get"
                  /\ UNCHANGED << cycle_count, last_action_executed, cooldown_until_cycle,
                                  pending, cycles_started >>
    /\ UNCHANGED << control_state_file, recent_causes, last_executed_action_key,
                    last_executed_cycle, last_decision_ts, last_decision_action_key,
                    clock, escalation, exec_history >>
    /\ awaiting_outcome' = <<>>

\* Agent.run, agent.py:486-488 and 510-557, with the event put on the queue
\* and taken from it in one step
OnEvent(m, llm_h) ==
    /\ HandleEvent(m, llm_h)
    /\ UNCHANGED fnVars

\* Agent.run_cycle, agent.py:164-215: the approval poll and the frozen loop
Poll(read1_ok, read2_ok) ==
    /\ pc = "poll"
    /\ LET r == check_and_apply_approval(World, metrics, read1_ok, read2_ok)
           applied == r.processed /\ r.msg = "APPROVED" /\ r.action # None
           frozen == ~r.processed /\ pending # None /\ pending.active
       IN /\ SetExecutor(r.w)
          /\ SetLearner(IF r.processed /\ ~applied THEN cancel_pending(Learner) ELSE Learner)
          /\ IF r.processed
             THEN /\ last_action_executed' = applied
                  /\ pending_outcome' = (applied \/ pending_outcome)
                  /\ last_decision_ts' = IF applied THEN clock ELSE last_decision_ts
                  /\ last_executed_action_key' =
                        IF applied THEN ActionKey(r.action) ELSE last_executed_action_key
                  /\ last_executed_cycle' = IF applied THEN cycle_count ELSE last_executed_cycle
                  /\ exec_history' =
                        IF applied THEN ExecutedBy(exec_history, ActionKey(r.action), cycle_count, "approval")
                        ELSE exec_history
                  /\ awaiting_outcome' =
                        IF applied THEN Append(awaiting_outcome, Applied(r.action, "approval"))
                        ELSE awaiting_outcome
                  /\ control_state_file' =
                        ControlState(get_escalation_state(r.w), metrics, FALSE,
                                     cooldown_until_cycle, cycle_count)
                  /\ pc' = "get"
             ELSE IF frozen
             THEN /\ control_state_file' =
                        ControlState(get_escalation_state(r.w), metrics, FALSE,
                                     cooldown_until_cycle, cycle_count)
                  /\ pc' = "get"
                  /\ UNCHANGED << last_action_executed, pending_outcome, last_decision_ts,
                                  last_executed_action_key, last_executed_cycle,
                                  exec_history, awaiting_outcome >>
             ELSE /\ pc' = "decide"
                  /\ UNCHANGED << control_state_file, last_action_executed, pending_outcome,
                                  last_decision_ts, last_executed_action_key,
                                  last_executed_cycle, exec_history, awaiting_outcome >>
    /\ IF pc' = "get" THEN ClearLocals ELSE UNCHANGED localVars
    /\ UNCHANGED << cycle_count, recent_causes, cooldown_until_cycle, last_written_action_key,
                    last_executed_trace, last_decision_action_key, clock, escalation,
                    cycles_started, fnVars >>

\* recent_causes after agent.py:226-231
AppendCause(causes, entry) == LastN(Append(causes, entry), MAX_RECENT_CAUSES)

in_cycle_cooldown(action_key) ==
    /\ last_executed_action_key = action_key
    /\ cycle_count - last_executed_cycle <= COOLDOWN_CYCLES

in_time_cooldown(action_key, now) ==
    /\ last_decision_action_key = action_key
    /\ now - last_decision_ts < DEBOUNCE_SEC
    /\ last_action_executed

\* agent.py:158-162: the context handed to decide().  recent_causes and the
\* rollback count do not change between agent.py:158 and agent.py:221.
DecisionContext ==
    [recent_causes |-> recent_causes,
     rollback_count |-> Len(rollback_log),
     pending_approval |-> IF pending # None /\ pending.active THEN pending ELSE None]

\* Agent.run_cycle, agent.py:217-382, and agent.py:556-557
DecideAct ==
    /\ pc = "decide"
    /\ LET trace == decide(metrics, hypothesis, DecisionContext)
           action == trace.action
           action_key == ActionKey(action)
       IN /\ recent_causes' = AppendCause(recent_causes,
                                          CauseEntry(hypothesis.cause, action.target))
          /\ IF action.action_type = NO_OP
             THEN \* agent.py:237-257
                  /\ last_written_action_key' = WrittenKey(NO_OP, NoTarget, OUTCOME_EXECUTED)
                  /\ control_state_file' =
                        ControlState(pending_escalation, metrics, FALSE,
                                     cooldown_until_cycle, cycle_count)
                  /\ UNCHANGED << executorVars, pending_approval_file, cooldown_until_cycle,
                                  last_action_executed, last_executed_action_key,
                                  last_executed_cycle, last_decision_ts,
                                  last_decision_action_key, pending_outcome,
                                  last_executed_trace, exec_history, awaiting_outcome, learnerVars >>
             ELSE IF in_cycle_cooldown(action_key) \/ in_time_cooldown(action_key, clock)
             THEN \* agent.py:283-307
                  /\ cooldown_until_cycle' = cycle_count + COOLDOWN_CYCLES
                  /\ last_written_action_key' =
                        WrittenKey(action.action_type, action.target, OUTCOME_SKIPPED_COOLDOWN)
                  /\ control_state_file' =
                        ControlState(pending_escalation, metrics, TRUE,
                                     cycle_count + COOLDOWN_CYCLES, cycle_count)
                  /\ SetLearner(cancel_pending(Learner))
                  /\ UNCHANGED << executorVars, pending_approval_file,
                                  last_action_executed, last_executed_action_key,
                                  last_executed_cycle, last_decision_ts,
                                  last_decision_action_key, pending_outcome,
                                  last_executed_trace, exec_history, awaiting_outcome >>
             ELSE \* agent.py:310-382
                  LET r == execute(World, trace, metrics)
                      outcome == IF r.executed THEN OUTCOME_EXECUTED ELSE OUTCOME_BLOCKED
                  IN /\ SetExecutor(r.w)
                     /\ SetLearner(IF r.executed
                                   THEN record_decision_context(Learner, metrics, action)
                                   ELSE cancel_pending(Learner))
                     /\ last_action_executed' = r.executed
                     /\ last_executed_action_key' =
                           IF r.executed THEN action_key ELSE last_executed_action_key
                     /\ last_executed_cycle' =
                           IF r.executed THEN cycle_count ELSE last_executed_cycle
                     /\ last_decision_ts' = IF r.executed THEN clock ELSE last_decision_ts
                     /\ last_decision_action_key' =
                           IF r.executed THEN action_key ELSE last_decision_action_key
                     /\ pending_outcome' = (r.executed \/ pending_outcome)
                     /\ last_written_action_key' =
                           WrittenKey(action.action_type, action.target, outcome)
                     /\ last_executed_trace' = IF r.executed THEN action ELSE None
                     /\ exec_history' =
                           IF r.executed THEN Executed(exec_history, action_key, cycle_count)
                           ELSE exec_history
                     /\ awaiting_outcome' =
                           IF r.executed THEN Append(awaiting_outcome, Applied(action, "execute"))
                           ELSE awaiting_outcome
                     /\ control_state_file' =
                           ControlState(get_escalation_state(r.w), metrics, FALSE,
                                        cooldown_until_cycle, cycle_count)
                     /\ UNCHANGED cooldown_until_cycle
    /\ pc' = "get"
    /\ ClearLocals
    /\ UNCHANGED << cycle_count, clock, escalation, cycles_started, fnVars >>

\* Agent.run, the empty-queue path (agent.py:489-506): _last_metrics is
\* never assigned by run(), so the poll is given None as metrics
OnTimeout(read1_ok, read2_ok) ==
    /\ pc = "get"
    /\ LET r == check_and_apply_approval(World, None, read1_ok, read2_ok)
           applied == r.processed /\ r.msg = "APPROVED" /\ r.action # None
       IN /\ SetExecutor(r.w)
          /\ SetLearner(IF r.processed /\ ~applied THEN cancel_pending(Learner) ELSE Learner)
          /\ last_action_executed' = (applied \/ last_action_executed)
          /\ pending_outcome' = (applied \/ pending_outcome)
          /\ last_decision_ts' = IF applied THEN clock ELSE last_decision_ts
          /\ last_executed_action_key' =
                IF applied THEN ActionKey(r.action) ELSE last_executed_action_key
          /\ last_executed_cycle' = IF applied THEN cycle_count ELSE last_executed_cycle
          /\ exec_history' =
                IF applied THEN ExecutedBy(exec_history, ActionKey(r.action), cycle_count, "approval")
                ELSE exec_history
          /\ awaiting_outcome' =
                IF applied THEN Append(awaiting_outcome, Applied(r.action, "approval"))
                ELSE awaiting_outcome
    /\ UNCHANGED << control_state_file, cycle_count, recent_causes, cooldown_until_cycle,
                    last_written_action_key, last_executed_trace, last_decision_action_key,
                    pc, localVars, clock, escalation, cycles_started, fnVars >>

\* time.time() advances between two iterations of the loop
Tick ==
    /\ pc = "get"
    /\ clock < MaxClock
    /\ clock' = clock + 1
    /\ UNCHANGED << executorVars, pending_approval_file, control_state_file, agentVars,
                    learnerVars, pc, localVars, exec_history, awaiting_outcome, escalation, cycles_started,
                    fnVars >>

-----------------------------------------------------------------------------
\* dashboard.py: the operator's process

\* dashboard.py:71,80: control_data.get("escalation") or {}
DashboardRead ==
    /\ escalation' = IF control_state_file = None THEN None ELSE control_state_file.escalation
    /\ escalation' # escalation
    /\ UNCHANGED << executorVars, pending_approval_file, control_state_file, agentVars,
                    learnerVars, pc, localVars, exec_history, awaiting_outcome, clock, cycles_started, fnVars >>

\* dashboard.py:206-227: a button writes the escalation last read, with a new status
DashboardDecide(status) ==
    /\ escalation # None
    /\ escalation.active
    /\ pending_approval_file' = [escalation EXCEPT !.status = status]
    /\ escalation' = None
    /\ UNCHANGED << executorVars, control_state_file, agentVars, learnerVars, pc, localVars,
                    clock, exec_history, awaiting_outcome, cycles_started, fnVars >>

DashboardApprove == DashboardDecide("approved")

DashboardReject == DashboardDecide("rejected")

-----------------------------------------------------------------------------
\* A crash followed by a new run: create_agent() builds a new Executor and
\* Agent (agent.py:45-77, executor.py:30-44); the files stay as they are.
Restart(read_ok) ==
    /\ pc = "get"
    /\ active_actions' = <<>>
    /\ baseline_metrics' = None
    /\ rollback_log' = <<>>
    /\ pending_escalation' = sync_pending_state(pending_approval_file, read_ok)
    /\ cycle_count' = 0
    /\ last_action_executed' = FALSE
    /\ pending_outcome' = FALSE
    /\ recent_causes' = <<>>
    /\ last_executed_action_key' = NoKey
    /\ last_executed_cycle' = -1
    /\ cooldown_until_cycle' = NoCycle
    /\ last_written_action_key' = NoKey
    /\ last_executed_trace' = None
    /\ last_decision_ts' = 0
    /\ last_decision_action_key' = NoKey
    /\ pc' = "get"
    /\ metrics' = None
    /\ hypothesis' = None
    /\ pending' = None
    /\ cycle_entry' = None
    /\ exec_history' = {}
    /\ awaiting_outcome' = <<>>
    /\ SetLearner(NewLearner)
    /\ UNCHANGED << pending_approval_file, control_state_file, clock, escalation,
                    cycles_started, fnVars >>

Next ==
    \/ \E m \in MetricsSet, llm_h \in LlmAnswers :
          /\ \/ cycles_started < MaxCycles
             \/ ~should_trigger_reason_decide(reason(m, llm_h), recent_causes)
          /\ OnEvent(m, llm_h)
    \/ \E read1_ok, read2_ok \in BOOLEAN : Poll(read1_ok, read2_ok)
    \/ DecideAct
    \/ \E read1_ok, read2_ok \in BOOLEAN : OnTimeout(read1_ok, read2_ok)
    \/ Tick
    \/ DashboardRead
    \/ DashboardApprove
    \/ DashboardReject
    \/ \E read_ok \in BOOLEAN : Restart(read_ok)

Spec == Init /\ [][Next]_vars

\* A longer run without crash, failed read or external hypothesis: the
\* hypothesis is always the deterministic one and every read of the approval
\* record succeeds; the operator is present.
NextLong ==
    \/ \E m \in MetricsLongSet :
          /\ cycles_started < MaxLongCycles
          /\ OnEvent(m, None)
    \/ Poll(TRUE, TRUE)
    \/ DecideAct
    \/ OnTimeout(TRUE, TRUE)
    \/ Tick
    \/ DashboardRead
    \/ DashboardApprove
    \/ DashboardReject

SpecLong == Init /\ [][NextLong]_vars

-----------------------------------------------------------------------------
\* decide() called directly on arguments drawn from bounded sets: the windows
\* of MetricsSet and windows at the thresholds of the forced human handover,
\* deterministic and external hypotheses at the confidence and uncertainty
\* thresholds, and contexts with and without a pending escalation.

\* attempt amplification 1.7 (>= 1.6) with a healthy overall success rate
MetricsAttemptAmp == Metrics(200, 85, 200, 10, 170, 10, [HDFC |-> 40, ICICI |-> 95], [m1 |-> 85, m2 |-> 86])

\* average cost exactly 0.05
MetricsHighCost == Metrics(200, 85, 200, 10, 100, 50, [HDFC |-> 40, ICICI |-> 95], [m1 |-> 85, m2 |-> 86])

\* two merchants below 0.75
MetricsTwoMerchants == Metrics(200, 85, 200, 10, 100, 10, [HDFC |-> 40, ICICI |-> 95], [m1 |-> 70, m2 |-> 74])

\* success rate exactly 0.65, one merchant exactly 0.75 and one below
MetricsAtSevere == Metrics(200, 65, 200, 10, 100, 10, [HDFC |-> 40, ICICI |-> 95], [m1 |-> 75, m2 |-> 60])

DecideMetrics == MetricsSet \cup { MetricsAttemptAmp, MetricsHighCost, MetricsTwoMerchants,
                                   MetricsAtSevere }

DecideHypotheses ==
    { Hyp(CAUSE_INSUFFICIENT_SIGNAL, 0, 1000, "heuristic"),
      Hyp(CAUSE_INSUFFICIENT_SIGNAL, 900, 0, "llm"),
      Hyp("Issuer_HDFC_Degradation", 850, 0, "heuristic"),
      Hyp("Issuer_HDFC_Degradation", 850, 500, "llm"),
      Hyp("Issuer_HDFC_Degradation", 599, 0, "llm"),
      Hyp("Retry_Storm", 800, 0, "heuristic"),
      Hyp("Latency_Spike", 750, 0, "heuristic"),
      Hyp("Latency_Spike", 600, 499, "llm"),
      Hyp("General_Degradation", 700, 0, "heuristic"),
      Hyp("General_Degradation", 400, 200, "llm") }

DecideRecentCauses ==
    { [i \in 1..n |-> CauseEntry("Issuer_HDFC_Degradation", "HDFC")] : n \in 0..MaxRecentCauses }

DecidePending ==
    { None } \cup
    { PendingRecord(a, "High risk; human approval required", "pending") :
        a \in { Action(REROUTE, "HDFC", FALSE, 523000),
                Action(REROUTE, "ICICI", TRUE, 363000),
                Action(SUPPRESS, "heavy_path", FALSE, 451200),
                Action(RETRY_POLICY, NoTarget, TRUE, 170000) } }

DecideContexts ==
    [recent_causes : DecideRecentCauses,
     rollback_count : 0..MaxRollbackCount,
     pending_approval : DecidePending]

DecideInputs == [fn : {"decide"}, m : DecideMetrics, h : DecideHypotheses, context : DecideContexts]

InitDecide ==
    /\ AgentConstructed
    /\ fn_in \in DecideInputs
    /\ fn_out = None

CallDecide ==
    /\ fn_in # None
    /\ fn_in.fn = "decide"
    /\ fn_out = None
    /\ fn_out' = decide(fn_in.m, fn_in.h, fn_in.context)
    /\ UNCHANGED << programVars, fn_in, componentVars >>

NextDecide == CallDecide

SpecDecide == InitDecide /\ [][NextDecide]_vars

-----------------------------------------------------------------------------
\* decide() called directly on hypotheses whose cause is none of the labels
\* the reasoner produces: a hypothesis without a cause, and the labels the
\* external source builds from the "cause" value of its JSON answer.

\* the JSON value null
JsonNull == "<null>"

\* generate_hypothesis_llm: cause = str(data.get("cause", "Unknown"))
LlmCause(raw) == IF raw = JsonNull THEN "None" ELSE raw

OtherCauses == { NoCause } \cup { LlmCause(raw) : raw \in { JsonNull, "", "Unknown", "Fraud_Spike" } }

OtherCauseHypotheses ==
    { Hyp(c, confidence, uncertainty, "llm") :
        c \in OtherCauses, confidence \in { 0, 599, 600, 1000 }, uncertainty \in { 0, 500 } }

OtherCauseInputs ==
    [fn : {"decide"}, m : DecideMetrics, h : OtherCauseHypotheses, context : DecideContexts]

InitDecideOtherCause ==
    /\ AgentConstructed
    /\ fn_in \in OtherCauseInputs
    /\ fn_out = None

SpecDecideOtherCause == InitDecideOtherCause /\ [][NextDecide]_vars

-----------------------------------------------------------------------------
\* decide() called directly with recent-cause lists longer than the window of
\* the risk accumulation, and confidences over the whole range [0, 1].

\* the entries run_cycle appends: the target of the decided action, or no
\* target when the decision was a no-op
RiskCauseEntries ==
    { CauseEntry("Issuer_HDFC_Degradation", "HDFC"),
      CauseEntry("Issuer_HDFC_Degradation", NoTarget),
      CauseEntry("Latency_Spike", "heavy_path") }

RiskRecentCauses ==
    UNION { [1..n -> RiskCauseEntries] : n \in 0..MaxRiskCauses }

RiskConfidences == { 0, 599, 600, 1000 }

RiskHypotheses ==
    { Hyp(cause, confidence, 0, "heuristic") :
        cause \in { "Issuer_HDFC_Degradation", "Latency_Spike", "Retry_Storm",
                    CAUSE_INSUFFICIENT_SIGNAL },
        confidence \in RiskConfidences }

RiskInputs ==
    [fn : {"decide"}, m : { MetricsIssuerHDFC, MetricsSevere }, h : RiskHypotheses,
     context : [recent_causes : RiskRecentCauses, rollback_count : {0},
                pending_approval : {None}]]

InitDecideRisk ==
    /\ AgentConstructed
    /\ fn_in \in RiskInputs
    /\ fn_out = None

SpecDecideRisk == InitDecideRisk /\ [][NextDecide]_vars

-----------------------------------------------------------------------------
\* The Learner called directly: record_decision_context, record_outcome and
\* cancel_pending in any order, on windows at the help and harm thresholds.

\* average cost exactly 0.04 with a healthy success rate
MetricsCostAtHarm == Metrics(200, 93, 200, 10, 100, 40, Healthy, [m1 |-> 93])

LearnerMetrics == { MetricsLowSample, MetricsIssuerHDFC, MetricsSevere, MetricsHighCost,
                    MetricsAttemptAmp, MetricsCostAtHarm }

LearnerActions == { NoOpAction, Action(REROUTE, "HDFC", FALSE, 363000),
                    Action(RETRY_POLICY, NoTarget, FALSE, 180000) }

nonLearnerVars == << executorVars, pending_approval_file, control_state_file, agentVars,
                    pc, localVars, exec_history, awaiting_outcome, clock, escalation, cycles_started, fnVars >>

LearnerRecordDecisionContext(m, action) ==
    /\ Len(outcomes) < MaxOutcomes
    /\ SetLearner(record_decision_context(Learner, m, action))
    /\ UNCHANGED nonLearnerVars

LearnerRecordOutcome(metrics_after, rollback_applied) ==
    /\ SetLearner(record_outcome(Learner, metrics_after, rollback_applied))
    /\ UNCHANGED nonLearnerVars

LearnerCancelPending ==
    /\ SetLearner(cancel_pending(Learner))
    /\ UNCHANGED nonLearnerVars

NextLearner ==
    \/ \E m \in LearnerMetrics, action \in LearnerActions : LearnerRecordDecisionContext(m, action)
    \/ \E m \in LearnerMetrics, rollback_applied \in BOOLEAN :
          LearnerRecordOutcome(m, rollback_applied)
    \/ LearnerCancelPending

SpecLearner == Init /\ [][NextLearner]_vars

-----------------------------------------------------------------------------
\* Executor.execute and Executor.check_and_apply_approval followed statement
\* by statement, so that the control thread can stop (KeyboardInterrupt, or
\* the process killed) between any two statements.  The controlled system
\* and the approval file outlive the control thread; a new run builds a new
\* Executor over them.

ExecutorCall(method, step, action, m) ==
    [method |-> method, step |-> step, action |-> action, metrics |-> m]

StopActions == { NoOpAction, Action(REROUTE, "HDFC", FALSE, 363000),
                 Action(RETRY_POLICY, NoTarget, FALSE, 180000),
                 Action(SUPPRESS, NoTarget, FALSE, 630000),
                 Action(REROUTE, "HDFC", TRUE, 363000) }

StopMetrics == { MetricsIssuerHDFC, MetricsSevere }

stopFrame == << rollback_log, control_state_file, agentVars, learnerVars, localVars,
                exec_history, awaiting_outcome, clock, escalation, cycles_started,
                fn_in, fn_out, event_queue, publishVars, observerVars, actions_file >>

\* agent.py:371: run_cycle calls executor.execute(trace, metrics)
BeginExecute(action, m) ==
    /\ pc = "get"
    /\ call = None
    /\ Len(controlled) < MaxApplied
    /\ call' = ExecutorCall("execute", "guards", action, m)
    /\ UNCHANGED << active_actions, baseline_metrics, pending_escalation,
                    pending_approval_file, controlled, pc, stopFrame >>

\* agent.py:161,494: the poll calls executor.check_and_apply_approval(metrics)
BeginApproval(m) ==
    /\ pc = "get"
    /\ call = None
    /\ Len(controlled) < MaxApplied
    /\ call' = ExecutorCall("check_and_apply_approval", "sync", None, m)
    /\ UNCHANGED << active_actions, baseline_metrics, pending_escalation,
                    pending_approval_file, controlled, pc, stopFrame >>

\* One statement of Executor.execute (executor.py:59-108, 279-299)
ExecuteStep ==
    /\ pc = "get"
    /\ call # None
    /\ call.method = "execute"
    /\ LET action == call.action IN
       CASE call.step = "guards" ->
              \* executor.py:61-62, 65, 79
              /\ call' = IF action.action_type = NO_OP THEN None
                         ELSE IF \/ action.requires_human_approval = TRUE
                                 \/ action.risk_score >= AUTO_EXECUTE_RISK_THRESHOLD
                         THEN [call EXCEPT !.step = "set_pending"]
                         ELSE [call EXCEPT !.step = "baseline"]
              /\ UNCHANGED << active_actions, baseline_metrics, pending_escalation,
                              pending_approval_file, controlled >>
         [] call.step = "set_pending" ->
              \* executor.py:289-298
              /\ pending_escalation' =
                    PendingRecord(action,
                                  IF action.requires_human_approval = TRUE
                                  THEN "Human approval required (cost/retry guardrail)"
                                  ELSE "High risk; human approval required",
                                  "pending")
              /\ call' = [call EXCEPT !.step = "write_pending"]
              /\ UNCHANGED << active_actions, baseline_metrics, pending_approval_file,
                              controlled >>
         [] call.step = "write_pending" ->
              \* executor.py:299
              /\ pending_approval_file' = pending_escalation
              /\ call' = None
              /\ UNCHANGED << active_actions, baseline_metrics, pending_escalation,
                              controlled >>
         [] call.step = "baseline" ->
              \* executor.py:93-94
              /\ baseline_metrics' = IF active_actions = <<>> THEN call.metrics
                                     ELSE baseline_metrics
              /\ call' = [call EXCEPT !.step = "apply"]
              /\ UNCHANGED << active_actions, pending_escalation, pending_approval_file,
                              controlled >>
         [] call.step = "apply" ->
              \* executor.py:96
              /\ controlled' = controlled \o apply_action(World, action).sent
              /\ call' = [call EXCEPT !.step = "track"]
              /\ UNCHANGED << active_actions, baseline_metrics, pending_escalation,
                              pending_approval_file >>
         [] call.step = "track" ->
              \* executor.py:98-104
              /\ active_actions' = Append(active_actions, action)
              /\ call' = None
              /\ UNCHANGED << baseline_metrics, pending_escalation, pending_approval_file,
                              controlled >>
    /\ UNCHANGED << pc, stopFrame >>

\* One statement of Executor.check_and_apply_approval (executor.py:213-277);
\* every read of the approval file succeeds
ApprovalStep ==
    /\ pc = "get"
    /\ call # None
    /\ call.method = "check_and_apply_approval"
    /\ CASE call.step = "sync" ->
              \* executor.py:218-224
              LET disk_state == read_pending_approval(pending_approval_file, TRUE) IN
              /\ IF pending_escalation # None
                 THEN /\ call' = [call EXCEPT !.step = "reread"]
                      /\ UNCHANGED pending_escalation
                 ELSE IF disk_state # None /\ disk_state.status = "pending"
                 THEN /\ pending_escalation' = disk_state
                      /\ call' = [call EXCEPT !.step = "reread"]
                 ELSE /\ call' = None
                      /\ UNCHANGED pending_escalation
              /\ UNCHANGED << active_actions, baseline_metrics, pending_approval_file,
                              controlled >>
         [] call.step = "reread" ->
              \* executor.py:227-251, 270, 277
              LET persisted == read_pending_approval(pending_approval_file, TRUE) IN
              /\ IF persisted = None
                 THEN /\ pending_escalation' = None
                      /\ call' = None
                 ELSE IF persisted.status = "approved"
                 THEN /\ call' = [call EXCEPT !.step = "baseline", !.action = persisted.action]
                      /\ UNCHANGED pending_escalation
                 ELSE IF persisted.status = "rejected"
                 THEN /\ call' = [call EXCEPT !.step = "clear_file"]
                      /\ UNCHANGED pending_escalation
                 ELSE /\ call' = None
                      /\ UNCHANGED pending_escalation
              /\ UNCHANGED << active_actions, baseline_metrics, pending_approval_file,
                              controlled >>
         [] call.step = "baseline" ->
              \* executor.py:254
              /\ baseline_metrics' = call.metrics
              /\ call' = [call EXCEPT !.step = "apply"]
              /\ UNCHANGED << active_actions, pending_escalation, pending_approval_file,
                              controlled >>
         [] call.step = "apply" ->
              \* executor.py:255
              /\ controlled' = controlled \o apply_action(World, call.action).sent
              /\ call' = [call EXCEPT !.step = "track"]
              /\ UNCHANGED << active_actions, baseline_metrics, pending_escalation,
                              pending_approval_file >>
         [] call.step = "track" ->
              \* executor.py:260-263
              /\ active_actions' = Append(active_actions, call.action)
              /\ call' = [call EXCEPT !.step = "clear_file"]
              /\ UNCHANGED << baseline_metrics, pending_escalation, pending_approval_file,
                              controlled >>
         [] call.step = "clear_file" ->
              \* executor.py:266, 273
              /\ pending_approval_file' = None
              /\ call' = [call EXCEPT !.step = "clear_slot"]
              /\ UNCHANGED << active_actions, baseline_metrics, pending_escalation,
                              controlled >>
         [] call.step = "clear_slot" ->
              \* executor.py:267-268, 274-275
              /\ pending_escalation' = None
              /\ call' = None
              /\ UNCHANGED << active_actions, baseline_metrics, pending_approval_file,
                              controlled >>
    /\ UNCHANGED << pc, stopFrame >>

\* dashboard.py:206-227: the operator's button writes the escalation shown,
\* with a new status, over the pending record
OperatorDecides(status) ==
    /\ pending_approval_file # None
    /\ pending_approval_file.status = "pending"
    /\ pending_approval_file' = [pending_approval_file EXCEPT !.status = status]
    /\ UNCHANGED << active_actions, baseline_metrics, pending_escalation, controlled,
                    call, pc, stopFrame >>

\* The control thread stops where it is: between two calls of the Executor
\* or between two statements of one
Stop ==
    /\ pc = "get"
    /\ pc' = "stopped"
    /\ UNCHANGED << active_actions, baseline_metrics, pending_escalation,
                    pending_approval_file, controlled, call, stopFrame >>

\* A new run after the stop: create_agent() builds a new Executor
\* (executor.py:30-44); the file and the controlled system stay as they are
RestartAfterStop ==
    /\ pc = "stopped"
    /\ active_actions' = <<>>
    /\ baseline_metrics' = None
    /\ pending_escalation' = sync_pending_state(pending_approval_file, TRUE)
    /\ call' = None
    /\ pc' = "get"
    /\ UNCHANGED << pending_approval_file, controlled, stopFrame >>

NextStop ==
    \/ \E action \in StopActions, m \in StopMetrics : BeginExecute(action, m)
    \/ \E m \in StopMetrics : BeginApproval(m)
    \/ ExecuteStep
    \/ ApprovalStep
    \/ \E status \in {"approved", "rejected"} : OperatorDecides(status)
    \/ Stop
    \/ RestartAfterStop

SpecStop == Init /\ [][NextStop]_vars

-----------------------------------------------------------------------------
\* Agent.run fed through the queue by the simulator thread of run.py: the
\* thread puts events and, when its stream ends, the sentinel None; the loop
\* takes one item at a time and polls the approval when the queue is empty.

\* run.py:86: the sentinel is None
Sentinel == None

RunEvents == { MetricsLowSample, MetricsIssuerHDFC, MetricsSevere }

\* the sentinel has been put on the queue
SentinelEnqueued ==
    \/ pc = "done"
    \/ event_queue # <<>> /\ event_queue[Len(event_queue)] = Sentinel

runFrame == << fn_in, fn_out, controlled, call, publishVars, observerVars, actions_file >>

\* run.py:74-83: q.put(event)
SimulatorPut(m) ==
    /\ ~SentinelEnqueued
    /\ Len(event_queue) < MaxQueue
    /\ cycles_started + Len(event_queue) < MaxRunCycles
    /\ event_queue' = Append(event_queue, m)
    /\ UNCHANGED << programVars, runFrame >>

\* run.py:85-86: finally: q.put(None)
SimulatorDone ==
    /\ ~SentinelEnqueued
    /\ Len(event_queue) < MaxQueue
    /\ event_queue' = Append(event_queue, Sentinel)
    /\ UNCHANGED << programVars, runFrame >>

\* Variant of the sentinel branch that goes on to the next dequeue
RunGetSentinelContinuing ==
    /\ pc = "get"
    /\ event_queue # <<>>
    /\ Head(event_queue) = Sentinel
    /\ event_queue' = Tail(event_queue)
    /\ UNCHANGED << programVars, runFrame >>

\* agent.py:486-488: the sentinel is dequeued and the loop is left
RunGetSentinel ==
    /\ pc = "get"
    /\ event_queue # <<>>
    /\ Head(event_queue) = Sentinel
    /\ event_queue' = Tail(event_queue)
    /\ pc' = "done"
    /\ UNCHANGED << executorVars, pending_approval_file, control_state_file, agentVars,
                    learnerVars, localVars, exec_history, awaiting_outcome, clock,
                    escalation, cycles_started, runFrame >>

\* agent.py:486, 507-557: an event is dequeued and handled
RunGetEvent ==
    /\ event_queue # <<>>
    /\ Head(event_queue) # Sentinel
    /\ HandleEvent(Head(event_queue), None)
    /\ event_queue' = Tail(event_queue)
    /\ UNCHANGED runFrame

\* agent.py:486, 489-505: the dequeue times out on the empty queue
RunTimeout ==
    /\ event_queue = <<>>
    /\ OnTimeout(TRUE, TRUE)

\* the steps of the control thread
RunLoop ==
    \/ RunGetSentinel
    \/ RunGetEvent
    \/ RunTimeout
    \/ Poll(TRUE, TRUE)
    \/ DecideAct

NextRun ==
    \/ \E m \in RunEvents : SimulatorPut(m)
    \/ SimulatorDone
    \/ RunGetSentinel
    \/ RunGetEvent
    \/ RunTimeout
    \/ Poll(TRUE, TRUE)
    \/ DecideAct
    \/ Tick
    \/ DashboardRead
    \/ DashboardApprove
    \/ DashboardReject

\* The control thread keeps running while it has a step to take
SpecRun == Init /\ [][NextRun]_vars /\ WF_vars(RunLoop)

-----------------------------------------------------------------------------
\* state_writer.py: one published record written by the control loop with
\* _write_json, statement by statement, while a reader process (the
\* dashboard) reads it with _read_json at any moment.

\* a file with this text, and a file that does not exist
File(text) == [exists |-> TRUE, text |-> text]

AbsentFile == [exists |-> FALSE, text |-> <<>>]

\* json.dump / json.load: what _read_json returns for a missing file or for
\* a text that does not parse
EmptyDict == [empty |-> TRUE]

\* json.dump(data, f): the text of data, handed to the file in parts
json_text(data) == [i \in 1..MaxParts |-> [of |-> data, part |-> i]]

\* json.load(f): the data of a complete text, JSONDecodeError otherwise
json_load(text) ==
    IF text # <<>> /\ text = json_text(text[1].of)
    THEN text[1].of
    ELSE Raised("JSONDecodeError")

\* state_writer._read_json
read_json(file) ==
    IF ~file.exists THEN EmptyDict
    ELSE IF json_load(file.text) = Raised("JSONDecodeError") THEN EmptyDict
    ELSE json_load(file.text)

PublishData ==
    { PendingRecord(Action(REROUTE, "HDFC", TRUE, 363000),
                    "Human approval required (cost/retry guardrail)", "pending"),
      PendingRecord(Action(SUPPRESS, NoTarget, FALSE, 630000),
                    "High risk; human approval required", "pending") }

publishFrame == << programVars, fn_in, fn_out, controlled, event_queue, observerVars,
                  actions_file >>

\* state_writer.py:208: write_pending_approval(approval) calls _write_json
BeginWrite(data) ==
    /\ call = None
    /\ call' = [method |-> "_write_json", step |-> "open_tmp", data |-> data]
    /\ UNCHANGED << state_file, tmp_file, read_result, published, publishFrame >>

\* One statement of state_writer._write_json (state_writer.py:41-55)
WriteStep ==
    /\ call # None
    /\ call.method = "_write_json"
    /\ CASE call.step = "open_tmp" ->
              \* state_writer.py:44: open(tmp, "w") creates or truncates
              /\ tmp_file' = File(<<>>)
              /\ call' = [call EXCEPT !.step = "dump_tmp"]
              /\ UNCHANGED << state_file, published >>
         [] call.step = "dump_tmp" ->
              \* state_writer.py:45
              /\ tmp_file' = File(Append(tmp_file.text, json_text(call.data)[Len(tmp_file.text) + 1]))
              /\ call' = [call EXCEPT !.step = IF Len(tmp_file.text) + 1 = MaxParts
                                                THEN "replace" ELSE "dump_tmp"]
              /\ UNCHANGED << state_file, published >>
         [] call.step = "replace" ->
              \* state_writer.py:46-48: tmp.replace(path), or PermissionError
              \* where the platform refuses to replace a file that is open
              \E permitted \in BOOLEAN :
                 IF permitted
                 THEN /\ state_file' = tmp_file
                      /\ tmp_file' = AbsentFile
                      /\ published' = call.data
                      /\ call' = None
                 ELSE /\ call' = [call EXCEPT !.step = "open_path"]
                      /\ UNCHANGED << state_file, tmp_file, published >>
         [] call.step = "open_path" ->
              \* state_writer.py:50: open(path, "w") truncates the record
              /\ state_file' = File(<<>>)
              /\ call' = [call EXCEPT !.step = "dump_path"]
              /\ UNCHANGED << tmp_file, published >>
         [] call.step = "dump_path" ->
              \* state_writer.py:51
              /\ state_file' = File(Append(state_file.text, json_text(call.data)[Len(state_file.text) + 1]))
              /\ call' = [call EXCEPT !.step = IF Len(state_file.text) + 1 = MaxParts
                                                THEN "unlink_tmp" ELSE "dump_path"]
              /\ UNCHANGED << tmp_file, published >>
         [] call.step = "unlink_tmp" ->
              \* state_writer.py:52-55
              /\ tmp_file' = AbsentFile
              /\ published' = call.data
              /\ call' = None
              /\ UNCHANGED state_file
    /\ UNCHANGED << read_result, publishFrame >>

\* state_writer.py:201-204: write_pending_approval(None) unlinks the record
ClearRecord ==
    /\ call = None
    /\ state_file.exists
    /\ state_file' = AbsentFile
    /\ published' = None
    /\ UNCHANGED << tmp_file, read_result, call, publishFrame >>

\* The reader calls _read_json (state_writer.py:58-65, dashboard.py:37-44)
ReaderRead ==
    /\ read_result' =
          [data |-> read_json(state_file),
           previous |-> IF published = None THEN EmptyDict ELSE published,
           next |-> IF call # None THEN call.data
                    ELSE IF published = None THEN EmptyDict ELSE published]
    /\ UNCHANGED << state_file, tmp_file, published, call, publishFrame >>

NextPublish ==
    \/ \E data \in PublishData : BeginWrite(data)
    \/ WriteStep
    \/ ClearRecord
    \/ ReaderRead

SpecPublish == Init /\ [][NextPublish]_vars

-----------------------------------------------------------------------------
\* observer.py: the Observer called directly: events with low and high
\* latencies are ingested into windows of every small size, and the p95
\* latency is computed on the buffer.

\* a PaymentEvent, by its arrival number and its latency
PaymentEvent(id, latency_ms) == [id |-> id, latency_ms |-> latency_ms]

ObserverLatencies == { 100, 900 }

\* Variant of ingest that drops the newest event on overflow
ingest_dropping_newest(buf, size, event) ==
    LET appended == Append(buf, event)
    IN IF Len(appended) > size THEN SubSeq(appended, 1, size) ELSE appended

\* Observer.ingest: the new buffer
ingest(buf, size, event) ==
    LET appended == Append(buf, event)
    IN IF Len(appended) > size THEN LastN(appended, size) ELSE appended

\* sorted(): s with x inserted, s ascending
RECURSIVE Insert(_, _)
Insert(s, x) ==
    IF s = <<>> THEN << x >>
    ELSE IF x <= Head(s) THEN << x >> \o s
    ELSE << Head(s) >> \o Insert(Tail(s), x)

RECURSIVE sorted(_)
sorted(s) == IF s = <<>> THEN <<>> ELSE Insert(sorted(Tail(s)), Head(s))

\* Observer._latency_p95; int(n * 0.95) is the whole part of n * 95 / 100
latency_p95(events) ==
    IF events = <<>> THEN 0
    ELSE LET sorted_lat == sorted([i \in 1..Len(events) |-> events[i].latency_ms])
             idx == Max(0, (Len(sorted_lat) * P95_FRACTION) \div 100 - 1)
         IN sorted_lat[idx + 1]

observerFrame == << programVars, controlled, call, event_queue, publishVars, actions_file >>

\* agent.py:516: self.observer.ingest(event)
ObserverIngest(latency_ms) ==
    /\ Len(ingested) < MaxIngested
    /\ LET event == PaymentEvent(Len(ingested) + 1, latency_ms)
       IN /\ buffer' = ingest(buffer, window_size, event)
          /\ ingested' = Append(ingested, event)
    /\ UNCHANGED << window_size, fn_in, fn_out, observerFrame >>

\* observer.py:47,56: get_partial_metrics calls self._latency_p95(events)
CallLatencyP95 ==
    /\ fn_in' = [fn |-> "_latency_p95", events |-> LastN(buffer, window_size)]
    /\ fn_out' = [value |-> latency_p95(LastN(buffer, window_size))]
    /\ UNCHANGED << observerVars, observerFrame >>

InitObserver ==
    /\ \E size \in 1..MaxWindow : AgentConstructedWith(size)
    /\ fn_in = None
    /\ fn_out = None

NextObserver ==
    \/ \E latency_ms \in ObserverLatencies : ObserverIngest(latency_ms)
    \/ CallLatencyP95

SpecObserver == InitObserver /\ [][NextObserver]_vars

-----------------------------------------------------------------------------
\* reason() and _heuristic_hypothesis() called directly on window metrics at
\* and next to every threshold of the reasoner.

\* success_rate_by_issuer of a window: no issuer recorded, every issuer
\* healthy, one issuer just below the degradation threshold, one far below
\* it, two below it
ReasonIssuers ==
    { << >>, Healthy, [HDFC |-> 74, ICICI |-> 95], [HDFC |-> 40, ICICI |-> 95],
      [HDFC |-> 40, ICICI |-> 30] }

\* attempt_amplification is 1.0 when no event of the window carries
\* total_attempts (observer.py _attempt_amplification)
ReasonMetrics ==
    { Metrics(n, s, p, r, a, c, by_issuer, [m1 |-> s]) :
        n \in { 29, 30, 200 }, s \in { 69, 70, 74, 75, 79, 80 }, p \in { 599, 600 },
        r \in { 119, 120 }, a \in { 100, 150 }, c \in { 10, 30 },
        by_issuer \in ReasonIssuers }

\* an answer of the external source carries its evidence text; its confidence
\* is clamped to [0, 1] and its uncertainty may be missing (-1)
LlmAnswer(cause, confidence, uncertainty, evidence) ==
    [cause |-> cause, confidence |-> confidence, uncertainty |-> uncertainty,
     source |-> "llm", evidence |-> evidence]

ReasonAnswers ==
    { None,
      LlmAnswer("Latency_Spike", 0, -1, "p95 is high"),
      LlmAnswer("Latency_Spike", 0, 300, "p95 is high"),
      LlmAnswer("Latency_Spike", 1, -1, "p95 is high"),
      LlmAnswer("Issuer_HDFC_Degradation", 900, -1, ""),
      LlmAnswer("Issuer_HDFC_Degradation", 900, 300, "HDFC is failing"),
      LlmAnswer("Unknown", 400, -1, "unclear") }

ReasonInputs ==
    [fn : {"reason"}, m : ReasonMetrics, llm_h : ReasonAnswers]
    \cup [fn : {"_heuristic_hypothesis"}, m : ReasonMetrics]

InitReason ==
    /\ AgentConstructed
    /\ fn_in \in ReasonInputs
    /\ fn_out = None

CallReason ==
    /\ fn_in # None
    /\ fn_in.fn = "reason"
    /\ fn_out = None
    /\ fn_out' = reason(fn_in.m, fn_in.llm_h)
    /\ UNCHANGED << programVars, fn_in, componentVars >>

CallHeuristic ==
    /\ fn_in # None
    /\ fn_in.fn = "_heuristic_hypothesis"
    /\ fn_out = None
    /\ fn_out' = heuristic_hypothesis(fn_in.m)
    /\ UNCHANGED << programVars, fn_in, componentVars >>

NextReason == CallReason \/ CallHeuristic

SpecReason == InitReason /\ [][NextReason]_vars

-----------------------------------------------------------------------------
\* The decision file: the writes of run_cycle and check_rollback_and_learn to
\* state/actions.json, on a file an earlier run may have filled.  The
\* decisions and their outcomes are taken in any order; a cycle is stamped
\* with its number (ts).

\* the dict write_action builds: the fields the de-duplication compares, and ts
ActionEntry(action_type, target, outcome, ts) ==
    [action_type |-> action_type, target |-> target, outcome |-> outcome, ts |-> ts]

\* (variant: the history is never cut)
write_action_keeping_all(file, latest, append_to_history) ==
    [latest |-> latest,
     history |-> IF append_to_history THEN Append(file.history, latest) ELSE file.history]

\* state_writer.write_action on the content of the file
write_action(file, latest, append_to_history) ==
    [latest |-> latest,
     history |-> IF append_to_history
                 THEN LastN(Append(file.history, latest), MAX_ACTIONS_HISTORY)
                 ELSE file.history]

\* the history an earlier run left: none, one entry short of the limit, at the limit
EarlierHistories ==
    { [i \in 1..n |-> IF i % 2 = 1
                      THEN ActionEntry(REROUTE, "HDFC", OUTCOME_EXECUTED, 0)
                      ELSE ActionEntry(NO_OP, NoTarget, OUTCOME_EXECUTED, 0)] :
        n \in { 0, MAX_ACTIONS_HISTORY - 1, MAX_ACTIONS_HISTORY } }

EarlierFiles ==
    { IF h = <<>> THEN NoActionsFile ELSE [latest |-> h[Len(h)], history |-> h] :
        h \in EarlierHistories }

HistoryActions == { Action(REROUTE, "HDFC", FALSE, 363000),
                    Action(RETRY_POLICY, NoTarget, TRUE, 180000) }

historyFrame == << executorVars, pending_approval_file, control_state_file,
                   last_action_executed, pending_outcome, recent_causes,
                   last_executed_action_key, last_executed_cycle, cooldown_until_cycle,
                   last_decision_ts, last_decision_action_key,
                   learnerVars, pc, localVars, exec_history, awaiting_outcome, clock,
                   escalation, cycles_started, fn_in, fn_out, controlled, call,
                   event_queue, publishVars, observerVars >>

InitHistory ==
    /\ \E file \in EarlierFiles : AgentConstructedOver(DEFAULT_WINDOW_SIZE, file)
    /\ fn_in = None
    /\ fn_out = None

\* agent.py:237-257 and 284-306, 350-369: current_key, append, write_action,
\* and the key kept when the entry was appended
CycleWrites(action_type, target, outcome) ==
    LET current_key == WrittenKey(action_type, target, outcome)
        append == current_key # last_written_action_key
    IN /\ actions_file' = write_action(actions_file,
                                       ActionEntry(action_type, target, outcome, cycle_count + 1),
                                       append)
       /\ last_written_action_key' = IF append THEN current_key ELSE last_written_action_key

\* a cycle that decides a no-op (agent.py:237-257)
HistoryNoOp ==
    /\ cycle_count < MaxHistoryCycles
    /\ cycle_count' = cycle_count + 1
    /\ CycleWrites(NO_OP, NoTarget, OUTCOME_EXECUTED)
    /\ UNCHANGED << last_executed_trace, historyFrame >>

\* a cycle whose proposal is debounced (agent.py:284-306)
HistoryCooldown(action) ==
    /\ cycle_count < MaxHistoryCycles
    /\ cycle_count' = cycle_count + 1
    /\ CycleWrites(action.action_type, action.target, OUTCOME_SKIPPED_COOLDOWN)
    /\ UNCHANGED << last_executed_trace, historyFrame >>

\* a cycle whose proposal execute() applies or escalates (agent.py:350-381)
HistoryDecision(action, executed) ==
    /\ cycle_count < MaxHistoryCycles
    /\ cycle_count' = cycle_count + 1
    /\ CycleWrites(action.action_type, action.target,
                   IF executed THEN OUTCOME_EXECUTED ELSE OUTCOME_BLOCKED)
    /\ last_executed_trace' = IF executed THEN action ELSE None
    /\ UNCHANGED historyFrame

\* check_rollback_and_learn with a rollback reported (agent.py:441-463)
HistoryRollback ==
    /\ last_executed_trace # None
    /\ actions_file' = write_action(actions_file,
                                    ActionEntry(last_executed_trace.action_type,
                                                last_executed_trace.target,
                                                OUTCOME_ROLLED_BACK, cycle_count),
                                    TRUE)
    /\ last_written_action_key' = WrittenKey(last_executed_trace.action_type,
                                             last_executed_trace.target, OUTCOME_ROLLED_BACK)
    /\ last_executed_trace' = None
    /\ UNCHANGED << cycle_count, historyFrame >>

NextHistory ==
    \/ HistoryNoOp
    \/ \E action \in HistoryActions : HistoryCooldown(action)
    \/ \E action \in HistoryActions, executed \in BOOLEAN : HistoryDecision(action, executed)
    \/ HistoryRollback

SpecHistory == InitHistory /\ [][NextHistory]_vars

-----------------------------------------------------------------------------
\* Properties.  A step of the control thread is recognised by the action that
\* takes it; what the Executor method returns in that step, and the commands
\* it sends, are those of the operator applied to the state before the step.

\* a proposal that the specification says must be escalated
Escalating(action) ==
    \/ action.requires_human_approval = TRUE
    \/ action.risk_score >= 450000

\* the trace run_cycle obtains from decide() at agent.py:221
Proposal == decide(metrics, hypothesis, DecisionContext)

\* the step is the one of run_cycle that reaches executor.execute (agent.py:310)
ExecuteCalled ==
    /\ pc = "decide"
    /\ pc' = "get"
    /\ Proposal.action.action_type # NO_OP
    /\ ~in_cycle_cooldown(ActionKey(Proposal.action))
    /\ ~in_time_cooldown(ActionKey(Proposal.action), clock)

\* the step is a call of check_and_apply_approval, from run_cycle or from the
\* empty-queue path of run()
PollCalled(read1_ok, read2_ok) == Poll(read1_ok, read2_ok) \/ OnTimeout(read1_ok, read2_ok)

\* the metrics handed to check_and_apply_approval in that step
PolledMetrics == IF pc = "poll" THEN metrics ELSE None

\* two escalation records name the same action kind, target and status
SameEscalation(a, b) ==
    \/ a = None /\ b = None
    \/ /\ a # None
       /\ b # None
       /\ a.action_type = b.action_type
       /\ a.target = b.target
       /\ a.status = b.status

\* C1: when execute() is called with a proposal that needs escalation while
\* the Executor already holds a pending escalation, the call returns
\* not-executed and the pending escalation keeps its action kind, target and
\* status, in memory and in the persisted record.
C1_PendingEscalationNotReplaced ==
    [][ (ExecuteCalled /\ pending_escalation # None /\ Escalating(Proposal.action))
          => /\ ~execute(World, Proposal, metrics).executed
             /\ SameEscalation(pending_escalation', pending_escalation)
             /\ SameEscalation(pending_approval_file', pending_approval_file) ]_vars

\* C2: a cycle in which the Executor holds a pending escalation after the
\* approval poll (held at cycle start, or picked up from the persisted record
\* by the poll) and the poll did not resolve it never goes on to decide():
\* whenever run_cycle proceeds from the poll to decide(), no escalation is held.
C2_NoDecideWhilePending ==
    [][ (pc = "poll" /\ pc' = "decide") => pending_escalation' = None ]_vars

\* C3: execute() with a proposal whose approval flag is set or whose risk is
\* >= 0.45 sends no command and adds nothing to the active actions; it stores
\* the proposal as the pending escalation, in memory and in the persisted
\* record, and returns executed = false.  The same holds for a proposal whose
\* risk is exactly 0.45, in every reachable state of the Executor.  An action
\* of that kind enters the active actions only in a call of
\* check_and_apply_approval that finds the persisted status approved.
C3_EscalatedNeverAutoApplied ==
    [][ /\ (ExecuteCalled /\ Escalating(Proposal.action)) =>
              LET r == execute(World, Proposal, metrics) IN
              /\ ~r.executed
              /\ r.w.sent = <<>>
              /\ active_actions' = active_actions
              /\ baseline_metrics' = baseline_metrics
              /\ pending_escalation' # None
              /\ pending_escalation'.action = Proposal.action
              /\ pending_escalation'.status = "pending"
              /\ pending_approval_file' = pending_escalation'
        /\ \A t \in {REROUTE, RETRY_POLICY, SUPPRESS} :
              LET a == Action(t, "HDFC", FALSE, 450000)
                  r == execute(World, DecisionTrace(None, a), MetricsIssuerHDFC)
              IN /\ ~r.executed
                 /\ r.w.sent = <<>>
                 /\ r.w.active_actions = active_actions
                 /\ r.w.pending_escalation.action = a
                 /\ r.w.file = r.w.pending_escalation
        /\ (/\ Len(active_actions') > Len(active_actions)
            /\ Escalating(active_actions'[Len(active_actions')])) =>
              /\ \E read1_ok, read2_ok \in BOOLEAN : PollCalled(read1_ok, read2_ok)
              /\ pending_approval_file # None
              /\ pending_approval_file.status = "approved"
              /\ pending_approval_file.action = active_actions'[Len(active_actions')]
      ]_vars

\* C3 witness: execute() has escalated a proposal that carries no approval
\* flag because its risk is at or above the threshold; the cycle published
\* the outcome blocked and nothing is active.
C3_Witness ==
    /\ pending_escalation # None
    /\ pending_escalation.status = "pending"
    /\ pending_escalation.action.requires_human_approval = FALSE
    /\ pending_escalation.action.risk_score >= 450000
    /\ pending_approval_file = pending_escalation
    /\ last_written_action_key =
          WrittenKey(pending_escalation.action_type, pending_escalation.target, OUTCOME_BLOCKED)
    /\ active_actions = <<>>

\* the command _apply_action sends for an action
AppliedCommand(action) == Command(action.action_type, action)

\* C4: when the Executor holds a pending escalation whose persisted status
\* has become approved and reads the record, check_and_apply_approval(metrics)
\* reports the approval and returns the action of the record, sends its
\* command exactly once, appends it to the active actions, sets the baseline
\* to the metrics passed, and clears the pending slot in memory and the
\* persisted record; a poll made when neither memory nor the persisted record
\* holds an escalation applies nothing, returns nothing and changes nothing.
C4_ApproveRoundTrip ==
    [][ /\ \A read1_ok, read2_ok \in BOOLEAN :
              (/\ PollCalled(read1_ok, read2_ok)
               /\ pending_escalation # None
               /\ pending_approval_file # None
               /\ pending_approval_file.status = "approved"
               /\ ~read_failed(World, read1_ok, read2_ok)) =>
                 LET r == check_and_apply_approval(World, PolledMetrics, read1_ok, read2_ok)
                     action == pending_approval_file.action
                 IN /\ r.processed
                    /\ r.msg = "APPROVED"
                    /\ r.action = action
                    /\ r.w.sent = << AppliedCommand(action) >>
                    /\ active_actions' = Append(active_actions, action)
                    /\ baseline_metrics' = PolledMetrics
                    /\ pending_escalation' = None
                    /\ pending_approval_file' = None
        /\ (pending_escalation = None /\ pending_approval_file = None) =>
              \A m \in MetricsSet \cup {None}, read1_ok, read2_ok \in BOOLEAN :
                 check_and_apply_approval(World, m, read1_ok, read2_ok) = NoApproval(World)
      ]_vars

\* C4 witness: an escalated action has been applied by an approval: it is the
\* last active action and the last executed key, and the pending slot and the
\* persisted record are empty.
C4_Witness ==
    /\ active_actions # <<>>
    /\ Escalating(active_actions[Len(active_actions)])
    /\ last_action_executed
    /\ last_executed_action_key = ActionKey(active_actions[Len(active_actions)])
    /\ baseline_metrics # None
    /\ pending_escalation = None
    /\ pending_approval_file = None

\* C5: when the Executor holds a pending escalation whose persisted status
\* has become rejected and reads the record, check_and_apply_approval reports
\* the rejection and returns no action, sends no command, clears the pending
\* slot in memory and the persisted record, and leaves the active actions,
\* the baseline, the rollback log and the Agent's last-executed key and cycle
\* as they were.
C5_RejectRoundTrip ==
    [][ \A read1_ok, read2_ok \in BOOLEAN :
          (/\ PollCalled(read1_ok, read2_ok)
           /\ pending_escalation # None
           /\ pending_approval_file # None
           /\ pending_approval_file.status = "rejected"
           /\ ~read_failed(World, read1_ok, read2_ok)) =>
             LET r == check_and_apply_approval(World, PolledMetrics, read1_ok, read2_ok)
             IN /\ r.processed
                /\ r.msg = "REJECTED"
                /\ r.action = None
                /\ r.w.sent = <<>>
                /\ pending_escalation' = None
                /\ pending_approval_file' = None
                /\ UNCHANGED << active_actions, baseline_metrics, rollback_log,
                                last_executed_action_key, last_executed_cycle >>
      ]_vars

\* C5 witness: the escalation this process created (the last published outcome
\* is blocked) is gone from memory and from the persisted record, and nothing
\* was applied or rolled back: it was rejected.
C5_Witness ==
    /\ Len(last_written_action_key) = 3
    /\ last_written_action_key[3] = OUTCOME_BLOCKED
    /\ pending_escalation = None
    /\ pending_approval_file = None
    /\ active_actions = <<>>
    /\ rollback_log = <<>>
    /\ last_executed_action_key = NoKey

\* C6: when a read of the persisted record fails in check_and_apply_approval
\* while the Executor holds a pending escalation, the escalation stays in the
\* in-memory slot, nothing is applied and nothing is reported.
C6_ReadFailureKeepsPending ==
    [][ \A read1_ok, read2_ok \in BOOLEAN :
          (/\ PollCalled(read1_ok, read2_ok)
           /\ pending_escalation # None
           /\ read_failed(World, read1_ok, read2_ok)) =>
             /\ ~check_and_apply_approval(World, PolledMetrics, read1_ok, read2_ok).processed
             /\ pending_escalation' = pending_escalation
             /\ active_actions' = active_actions
      ]_vars

\* C7: whenever check_and_apply_approval is called, reads the persisted
\* record and finds it with status approved, the action of the record is
\* added to the active actions and the record is cleared, whether or not the
\* Executor holds the escalation in memory.
C7_PersistedApprovalAuthoritative ==
    [][ \A read1_ok, read2_ok \in BOOLEAN :
          (/\ PollCalled(read1_ok, read2_ok)
           /\ pending_approval_file # None
           /\ pending_approval_file.status = "approved"
           /\ ~read_failed(World, read1_ok, read2_ok)) =>
             /\ active_actions' = Append(active_actions, pending_approval_file.action)
             /\ pending_approval_file' = None
      ]_vars

\* the step is one of run() that calls check_rollback with the metrics m
RollbackChecked(m, llm_h) == pending_outcome /\ OnEvent(m, llm_h)

\* C9: after every check_rollback call the active actions and the baseline
\* are both as before, or the active actions are empty and the baseline is
\* absent; after a call that reverted something, both are cleared.  The same
\* holds for the result of check_rollback in every reachable state.
C9_RollbackClearsBothOrNeither ==
    [][ /\ \A m \in MetricsSet, llm_h \in LlmAnswers :
              RollbackChecked(m, llm_h) =>
                 /\ \/ active_actions' = active_actions /\ baseline_metrics' = baseline_metrics
                    \/ active_actions' = <<>> /\ baseline_metrics' = None
                 /\ check_rollback(World, m).rollbacks # <<>> =>
                       active_actions' = <<>> /\ baseline_metrics' = None
        /\ \A m \in MetricsSet :
              LET w == check_rollback(World, m).w
              IN \/ w.active_actions = active_actions /\ w.baseline_metrics = baseline_metrics
                 \/ w.active_actions = <<>> /\ w.baseline_metrics = None
      ]_vars

\* C9 witness: a rollback has reverted two active actions; the active actions
\* and the baseline are both cleared.
C9_Witness ==
    /\ Len(rollback_log) = 2
    /\ active_actions = <<>>
    /\ baseline_metrics = None
    /\ ~pending_outcome

\* the regression test of the specification: success rate down by at least
\* 0.08, or tail latency up by at least a quarter of a positive baseline
Regressed(base, cur) ==
    \/ base.success_rate - cur.success_rate >= 8
    \/ /\ base.p95_latency_ms > 0
       /\ 4 * (cur.p95_latency_ms - base.p95_latency_ms) >= base.p95_latency_ms

\* C10: check_rollback(current) returns a non-empty list exactly when there
\* is an active action, a baseline is stored and the metrics regressed; then
\* it sends one rollback command per active action, in order, and returns one
\* entry per active action, which it also appends to the rollback log;
\* otherwise it returns the empty list, sends nothing and changes nothing.
C10_RollbackExactlyOnRegression ==
    [][ \A m \in MetricsSet, llm_h \in LlmAnswers :
          RollbackChecked(m, llm_h) =>
             LET r == check_rollback(World, m)
                 expected == /\ active_actions # <<>>
                             /\ baseline_metrics # None
                             /\ Regressed(baseline_metrics, m)
             IN /\ (r.rollbacks # <<>>) <=> expected
                /\ expected =>
                      /\ Len(r.rollbacks) = Len(active_actions)
                      /\ Len(r.w.sent) = Len(active_actions)
                      /\ \A i \in 1..Len(active_actions) :
                            /\ r.w.sent[i] = Command("rollback", active_actions[i])
                            /\ r.rollbacks[i].action_type = active_actions[i].action_type
                      /\ rollback_log' = rollback_log \o r.rollbacks
                /\ ~expected =>
                      /\ r.w.sent = <<>>
                      /\ UNCHANGED << active_actions, baseline_metrics, rollback_log >>
      ]_vars

\* C10 witness: a rollback triggered by the latency alone (the success rate
\* did not drop) has reverted two active actions of different kinds.
C10_Witness ==
    /\ Len(rollback_log) = 2
    /\ rollback_log[1].action_type # rollback_log[2].action_type
    /\ ~rollback_log[1].success_drop
    /\ rollback_log[1].latency_inc
    /\ active_actions = <<>>

\* the step is the end of a run_cycle whose decision is a no-op (agent.py:237-257)
NoOpDecided ==
    /\ pc = "decide"
    /\ pc' = "get"
    /\ Proposal.action.action_type = NO_OP

\* execute() on a no-op returns executed = true and changes nothing, whatever
\* the state of the Executor
NoOpExecuteChangesNothing ==
    \A m \in MetricsSet \cup {None} :
       execute(World, DecisionTrace(None, NoOpAction), m) = [w |-> World, executed |-> TRUE]

\* C8 as stated: execute() on a no-op returns executed = true and leaves the
\* Executor as it is, and a run_cycle whose decision is a no-op leaves the
\* last-executed action key, the last-executed cycle, the last-decision
\* timestamp and the cooldown-until cycle as they were when it was entered.
C8_NoOpCycleChangesNoDebounceField ==
    [][ /\ NoOpExecuteChangesNothing
        /\ NoOpDecided => DebounceState' = cycle_entry ]_vars

\* C8 amended: execute() on a no-op returns executed = true and leaves the
\* Executor as it is, and a run_cycle whose decision is a no-op leaves the
\* last-executed action key, the last-executed cycle and the last-decision
\* timestamp as they were and never sets the cooldown-until cycle: that field
\* is as it was, or was cleared at the start of the cycle because the cycle
\* number had passed it.
C8_NoOpStartsNoDebounce ==
    [][ /\ NoOpExecuteChangesNothing
        /\ NoOpDecided =>
              /\ last_executed_action_key' = cycle_entry.last_executed_action_key
              /\ last_executed_cycle' = cycle_entry.last_executed_cycle
              /\ last_decision_ts' = cycle_entry.last_decision_ts
              /\ \/ cooldown_until_cycle' = cycle_entry.cooldown_until_cycle
                 \/ /\ cooldown_until_cycle' = NoCycle
                    /\ cycle_entry.cooldown_until_cycle # NoCycle
                    /\ cycle_count > cycle_entry.cooldown_until_cycle
      ]_vars

\* C8 witness: a cycle has just ended with a no-op decision while an action
\* executed earlier is still active.
C8_Witness ==
    /\ pc = "get"
    /\ last_written_action_key = WrittenKey(NO_OP, NoTarget, OUTCOME_EXECUTED)
    /\ last_executed_action_key # NoKey
    /\ active_actions # <<>>

-----------------------------------------------------------------------------
\* the step keeps every tracked action and the oldest one stays the oldest
OldestActionKept ==
    /\ active_actions # <<>>
    /\ Len(active_actions') >= Len(active_actions)
    /\ SubSeq(active_actions', 1, Len(active_actions)) = active_actions

\* the step is a call of execute() with an auto-executable action while at
\* least one action is tracked
FurtherExecute ==
    /\ ExecuteCalled
    /\ active_actions # <<>>
    /\ ~Escalating(Proposal.action)

\* C11 as stated: execute() of a further auto-executable action while an
\* action is tracked appends it and leaves the baseline unchanged, and the
\* baseline stays the one stored for the oldest tracked action for as long as
\* that action is tracked (no step that keeps the tracked actions changes it).
C11_BaselineOfOldestAction ==
    [][ /\ FurtherExecute => /\ active_actions' = Append(active_actions, Proposal.action)
                             /\ baseline_metrics' = baseline_metrics
        /\ OldestActionKept => baseline_metrics' = baseline_metrics ]_vars

\* C11 amended: execute() of a further auto-executable action while an action
\* is tracked appends it and leaves the baseline unchanged; while actions stay
\* tracked the baseline is replaced only by check_and_apply_approval applying
\* an approved action, which stores the metrics handed to that poll.
C11_ExecuteKeepsBaseline ==
    [][ /\ FurtherExecute => /\ active_actions' = Append(active_actions, Proposal.action)
                             /\ baseline_metrics' = baseline_metrics
                             /\ execute(World, Proposal, metrics).executed
        /\ (OldestActionKept /\ baseline_metrics' # baseline_metrics)
              => /\ pc # "decide"
                 /\ Len(active_actions') = Len(active_actions) + 1
                 /\ baseline_metrics' = PolledMetrics ]_vars

\* a second action was auto-executed in this cycle while the first is tracked,
\* and the baseline is still the window of the first
C11_Witness ==
    /\ pc = "get"
    /\ Len(active_actions) = 2
    /\ last_action_executed
    /\ last_executed_trace = active_actions[2]
    /\ last_decision_action_key = ActionKey(active_actions[2])
    /\ last_executed_cycle = cycle_count
    /\ active_actions[1].action_type = REROUTE
    /\ active_actions[2].action_type = SUPPRESS
    /\ baseline_metrics = MetricsIssuerHDFC

-----------------------------------------------------------------------------
\* the step is the part of run_cycle after decide() (agent.py:221-382) and the
\* decision is not a no-op
ProposalHandled ==
    /\ pc = "decide"
    /\ pc' = "get"
    /\ Proposal.action.action_type # NO_OP

\* the step reports the proposal as skipped for cooldown: outcome tag
\* skipped_cooldown, executed=false, execute() not called (nothing applied, no
\* escalation created) and no debounce window started or extended
ReportedSkipped ==
    /\ last_written_action_key' =
          WrittenKey(Proposal.action.action_type, Proposal.action.target,
                     OUTCOME_SKIPPED_COOLDOWN)
    /\ ~last_action_executed'
    /\ UNCHANGED << executorVars, pending_approval_file >>
    /\ UNCHANGED << last_executed_action_key, last_executed_cycle, exec_history >>

\* C12: if an action (kind, target) was executed in cycle c, every run_cycle in
\* cycles c+1 and c+2 whose decision proposes the identical (kind, target)
\* reports skipped_cooldown with executed=false, does not call execute(), and
\* does not update the last-executed cycle.
C12_CycleDebounce ==
    [][ \A e \in exec_history :
           ( /\ ProposalHandled
             /\ ActionKey(Proposal.action) = e.key
             /\ cycle_count - e.cycle \in 1..COOLDOWN_CYCLES )
           => ReportedSkipped ]_vars

\* C13: a proposal identical to the action executed last, made less than
\* DEBOUNCE_SEC seconds after that execution, reports skipped_cooldown with
\* executed=false and is not applied, however many cycles have elapsed.
C13_WallClockDebounce ==
    [][ ( /\ ProposalHandled
          /\ ActionKey(Proposal.action) = last_executed_action_key
          /\ clock - last_decision_ts < DEBOUNCE_SEC )
        => ReportedSkipped ]_vars

\* the step reports the proposal as skipped for cooldown
SkippedForCooldown ==
    /\ ProposalHandled
    /\ last_written_action_key' =
          WrittenKey(Proposal.action.action_type, Proposal.action.target,
                     OUTCOME_SKIPPED_COOLDOWN)

\* C14: a proposal that is blocked or escalated, or skipped for cooldown,
\* leaves the last-executed action key, the last-executed cycle and the
\* last-decision timestamp and key unchanged; and a proposal is skipped for
\* cooldown only on account of an application of the same (kind, target)
\* recorded within the last COOLDOWN_CYCLES cycles, never on account of a
\* blocked proposal.
C14_BlockedStartsNoDebounce ==
    [][ /\ ( \/ ExecuteCalled /\ Escalating(Proposal.action)
             \/ SkippedForCooldown )
           => UNCHANGED << last_executed_action_key, last_executed_cycle,
                           last_decision_ts, last_decision_action_key >>
        /\ SkippedForCooldown
           => \E e \in exec_history :
                 /\ e.key = ActionKey(Proposal.action)
                 /\ cycle_count - e.cycle <= COOLDOWN_CYCLES ]_vars

\* the same reroute was proposed in two cycles and is escalated now, although
\* nothing was ever executed: the first escalation was rejected, and the
\* second proposal was not skipped
C14_Witness ==
    /\ pc = "get"
    /\ pending_escalation # None
    /\ Len(last_written_action_key) = 3
    /\ last_written_action_key[3] = OUTCOME_BLOCKED
    /\ last_executed_action_key = NoKey
    /\ exec_history = {}
    /\ Len(recent_causes) >= 2
    /\ recent_causes[Len(recent_causes)].target = pending_escalation.target
    /\ recent_causes[Len(recent_causes) - 1].target = pending_escalation.target

-----------------------------------------------------------------------------
\* the step ends a run_cycle, which publishes the control state on each of
\* its exits (agent.py:185, 214, 256, 306, 382)
ControlStatePublished ==
    \/ pc = "poll" /\ pc' = "get"
    \/ pc = "decide" /\ pc' = "get"

\* the mode the priority rule gives for what holds when the state is published
ModeByPriority(escalation_pending, cooldown, degraded) ==
    IF escalation_pending THEN "HUMAN_APPROVAL_REQUIRED"
    ELSE IF cooldown THEN "COOLDOWN_ACTIVE"
    ELSE IF degraded THEN "DEGRADED"
    ELSE "NORMAL"

\* C15: every published control state carries HUMAN_APPROVAL_REQUIRED if the
\* Executor holds a pending escalation when it is published; otherwise
\* COOLDOWN_ACTIVE if the cycle was skipped for cooldown or the cycle count is
\* <= the cooldown-until cycle; otherwise DEGRADED if the success rate of the
\* cycle's window is < 0.78; otherwise NORMAL.
C15_ModeByPriority ==
    [][ ControlStatePublished
        => /\ control_state_file'.system_mode =
                 ModeByPriority(pending_escalation' # None,
                                \/ SkippedForCooldown
                                \/ /\ cooldown_until_cycle' # NoCycle
                                   /\ cycle_count' <= cooldown_until_cycle',
                                metrics.success_rate < 78)
           /\ pending_escalation' # None
                 => control_state_file'.system_mode = "HUMAN_APPROVAL_REQUIRED" ]_vars

\* a control state published with an escalation pending inside a cooldown window
C15_Witness ==
    /\ pc = "get"
    /\ control_state_file # None
    /\ control_state_file.system_mode = "HUMAN_APPROVAL_REQUIRED"
    /\ control_state_file.escalation = pending_escalation
    /\ pending_escalation # None
    /\ cooldown_until_cycle # NoCycle
    /\ cycle_count <= cooldown_until_cycle
    /\ Len(last_written_action_key) = 3
    /\ last_written_action_key[3] = OUTCOME_BLOCKED

-----------------------------------------------------------------------------
\* the trigger condition as the specification words it
TriggerHolds(h, causes) ==
    \/ h.uncertainty >= 500
    \/ h.confidence >= 600
    \/ \E i, j \in 1..Len(causes) :
          /\ i < j
          /\ i > Len(causes) - 5
          /\ causes[i] = causes[j]

\* C16 as stated: an ingested event starts run_cycle only if the trigger
\* condition holds for its hypothesis; when it does not hold the event changes
\* no decision, debounce, escalation or executor state.
C16_NoTriggerNoChange ==
    [][ \A m \in MetricsSet, llm_h \in LlmAnswers :
           OnEvent(m, llm_h)
           => /\ pc' = "poll" => TriggerHolds(reason(m, llm_h), recent_causes)
              /\ ~TriggerHolds(reason(m, llm_h), recent_causes)
                    => /\ pc' = "get"
                       /\ UNCHANGED << executorVars, pending_approval_file,
                                       control_state_file, cycle_count, recent_causes,
                                       last_executed_action_key, last_executed_cycle,
                                       cooldown_until_cycle, last_decision_ts,
                                       last_decision_action_key, exec_history >> ]_vars

\* C16 amended: an ingested event starts run_cycle only if the trigger
\* condition holds; when it does not hold, the event changes no decision,
\* debounce or escalation state and publishes nothing, and the Executor's
\* active actions, baseline and rollback log change only as check_rollback
\* changes them when an outcome is pending from an earlier execution.
C16_NoTriggerNoCycle ==
    [][ \A m \in MetricsSet, llm_h \in LlmAnswers :
           OnEvent(m, llm_h)
           => /\ pc' = "poll" => TriggerHolds(reason(m, llm_h), recent_causes)
              /\ ~TriggerHolds(reason(m, llm_h), recent_causes)
                    => /\ pc' = "get"
                       /\ UNCHANGED << pending_escalation, pending_approval_file,
                                       control_state_file, cycle_count, recent_causes,
                                       last_executed_action_key, last_executed_cycle,
                                       cooldown_until_cycle, last_decision_ts,
                                       last_decision_action_key, exec_history >>
                       /\ IF pending_outcome
                          THEN << active_actions', baseline_metrics', rollback_log' >> =
                                  << check_rollback(World, m).w.active_actions,
                                     check_rollback(World, m).w.baseline_metrics,
                                     check_rollback(World, m).w.rollback_log >>
                          ELSE UNCHANGED << active_actions, baseline_metrics,
                                            rollback_log >> ]_vars

\* the action executed in cycle 1 was rolled back by an event that started no
\* cycle
C16_Witness ==
    /\ pc = "get"
    /\ cycle_count = 1
    /\ cycles_started = 1
    /\ exec_history # {}
    /\ rollback_log # <<>>
    /\ active_actions = <<>>
    /\ ~pending_outcome

-----------------------------------------------------------------------------
\* C17: for every window whose sample count is below MIN_SAMPLE_FOR_ACT the
\* hypothesis run_cycle works on is INSUFFICIENT_SIGNAL with confidence 0.0
\* and uncertainty 1.0, whatever the external hypothesis source returned, and
\* the decision taken on it is a no-op.
C17_LowSampleInsufficientSignal ==
    (pc \in {"poll", "decide"} /\ metrics.sample_count < 30)
    => /\ hypothesis.cause = "INSUFFICIENT_SIGNAL"
       /\ hypothesis.confidence = 0
       /\ hypothesis.uncertainty = 1000
       /\ decide(metrics, hypothesis, DecisionContext).action.action_type = NO_OP

\* a no-op decision: no action kind, no target, risk 0, no approval flag
IsNoOpTrace(trace) ==
    /\ trace.action.action_type = "no_op"
    /\ trace.action.target = NoTarget
    /\ trace.action.risk_score = 0
    /\ trace.action.requires_human_approval = FALSE
    /\ trace.risk_score = 0

\* C18: decide() returns a no-op with risk 0 and without the human-approval
\* flag whenever the cause is INSUFFICIENT_SIGNAL or the confidence is below
\* 0.6, for every window and every context.
C18_NoOpBelowConfidence ==
    fn_out # None
    => ( (fn_in.h.cause = "INSUFFICIENT_SIGNAL" \/ fn_in.h.confidence < 600)
         => IsNoOpTrace(fn_out) )

\* decide() was called on a named cause with confidence below 0.6, on a
\* severely degraded window with two rollbacks in the context
C18_Witness ==
    /\ fn_out # None
    /\ fn_in.h.cause = "Issuer_HDFC_Degradation"
    /\ fn_in.h.confidence = 599
    /\ fn_in.m.success_rate < 65
    /\ fn_in.context.rollback_count >= 2
    /\ IsNoOpTrace(fn_out)

\* C19: every non-no-op action returned by decide() carries the human-approval
\* requirement whenever (i) the success rate is below 0.65, or (ii) the
\* context rollback count is >= 2, or (iii) the average cost is >= 0.05 or the
\* attempt amplification is >= 1.6, or (iv) two or more merchants have a
\* success rate below 0.75, or (v) the hypothesis uncertainty is >= 0.5.
C19_ForcedHandoverFlagsAction ==
    (fn_out # None /\ fn_out.action.action_type # NO_OP)
    => ( ( \/ fn_in.m.success_rate < 65
           \/ fn_in.context.rollback_count >= 2
           \/ fn_in.m.average_estimated_cost >= 50
           \/ fn_in.m.attempt_amplification >= 160
           \/ Cardinality({ k \in DOMAIN fn_in.m.success_rate_by_merchant :
                              fn_in.m.success_rate_by_merchant[k] < 75 }) >= 2
           \/ fn_in.h.uncertainty >= 500 )
         => fn_out.action.requires_human_approval = TRUE )

\* what decide() proposes on the same arguments when nothing is pending
ProposedWithoutPending == decide(fn_in.m, fn_in.h, [fn_in.context EXCEPT !.pending_approval = None])

\* C20: when the context holds a pending escalation of the same action kind
\* and target as the action decide() would otherwise propose, decide()
\* returns a no-op with risk 0; when the pending escalation differs in kind or
\* target, the proposal is returned unchanged.
C20_ThrashingGuard ==
    (fn_out # None /\ fn_in.context.pending_approval # None)
    => LET p == fn_in.context.pending_approval
           free == ProposedWithoutPending
       IN IF /\ free.action.action_type # NO_OP
             /\ p.action_type = free.action.action_type
             /\ p.target = free.action.target
          THEN IsNoOpTrace(fn_out)
          ELSE fn_out = free

\* decide() downgraded a reroute of HDFC to a no-op because the same reroute
\* is pending
C20_Witness ==
    /\ fn_out # None
    /\ fn_in.context.pending_approval # None
    /\ fn_in.context.pending_approval.action_type = REROUTE
    /\ fn_in.context.pending_approval.target = "HDFC"
    /\ ProposedWithoutPending.action.action_type = REROUTE
    /\ ProposedWithoutPending.action.target = "HDFC"
    /\ IsNoOpTrace(fn_out)

-----------------------------------------------------------------------------
\* the cause belongs to one of the families decide() acts on, or is the
\* insufficient-signal label
RecognizedCause(c) ==
    c \in { "INSUFFICIENT_SIGNAL", "Issuer_HDFC_Degradation", "Issuer_ICICI_Degradation",
            "Retry_Storm", "Retry_Storm_Detected", "Latency_Spike", "General_Degradation" }

\* the call returned a trace (it did not raise)
Returned(out) == out # None /\ "raised" \notin DOMAIN out

-----------------------------------------------------------------------------
\* a quantity rose from the before-snapshot to the after-snapshot and lies
\* at or beyond its harm threshold
IncreasedBeyond(before, after, threshold) == after > before /\ after >= threshold

\* the class the specification gives an outcome record
SpecifiedClass(record) ==
    LET before == record.context_snapshot
        after == record.outcome_metrics
    IN IF record.rollback_applied THEN "hurt"
       ELSE IF \/ IncreasedBeyond(before.average_estimated_cost,
                                  after.average_estimated_cost, 40)
               \/ IncreasedBeyond(before.attempt_amplification,
                                  after.attempt_amplification, 160)
       THEN "hurt"
       ELSE IF \/ after.success_rate - before.success_rate >= 3
               \/ /\ before.p95_latency_ms > 0
                  /\ (before.p95_latency_ms - after.p95_latency_ms) * 100
                        >= 15 * before.p95_latency_ms
       THEN "helped"
       ELSE "neutral"

\* how many outcome records of an action kind the specification puts in a class
SpecifiedCount(a_type, class) ==
    Cardinality({ i \in 1..Len(outcomes) :
                    /\ outcomes[i].action.action_type = a_type
                    /\ SpecifiedClass(outcomes[i]) = class })

\* C22: record_outcome puts the pending record in exactly one class, in this
\* order: rollback applied => hurt; else cost or attempt amplification
\* increased from the before-snapshot to the after-snapshot beyond the harm
\* thresholds => hurt; else success rate improved by >= 0.03 or p95 latency
\* fell by >= 15% => helped; else neutral.  The record is marked helped
\* exactly when its class is helped, it is counted once, in the counter of
\* its class, and a record with rollback_applied is not helped and is counted
\* as hurt.
C22_OutcomeClassification ==
    /\ \A i \in 1..Len(outcomes) :
          /\ outcomes[i].helped = (SpecifiedClass(outcomes[i]) = "helped")
          /\ outcomes[i].rollback_applied => ~outcomes[i].helped
    /\ \A a_type \in { REROUTE, RETRY_POLICY, SUPPRESS } :
          \A class \in { "helped", "hurt", "neutral" } :
             SpecifiedCount(a_type, class) =
                IF a_type \in DOMAIN action_stats THEN action_stats[a_type][class] ELSE 0

-----------------------------------------------------------------------------
\* the step evaluates an ingested event (Agent.run, agent.py:508-557)
EventEvaluated == \E m \in MetricsLongSet : OnEvent(m, None)

\* C23: every action applied to the controlled system, by execute() or by
\* check_and_apply_approval after a human approval, yields exactly one
\* OutcomeRecord, appended when the next event is evaluated; no other step
\* appends a record, so that no-op, blocked, rejected and skipped proposals
\* yield none and no action yields two.
C23_OneOutcomePerAppliedAction ==
    [][ /\ EventEvaluated
           => /\ Len(outcomes') = Len(outcomes) + Len(awaiting_outcome)
              /\ \A i \in 1..Len(awaiting_outcome) :
                    /\ Len(outcomes) + i <= Len(outcomes')
                    /\ outcomes'[Len(outcomes) + i].action = awaiting_outcome[i].action
        /\ ~EventEvaluated => outcomes' = outcomes ]_vars

-----------------------------------------------------------------------------
\* the number of outcomes of an action kind counted as hurt
HurtCount(stats, a_type) == IF a_type \in DOMAIN stats THEN stats[a_type]["hurt"] ELSE 0

\* C24: when the last action applied was auto-executed by execute() and the
\* next ingested event shows a success rate at least 0.08 below the stored
\* baseline, that event rolls the action back: the active set and the
\* baseline are cleared, one rollback message per active action is logged,
\* the decision written last is the action with outcome rolled_back, and the
\* Learner appends one OutcomeRecord for the action with rollback_applied,
\* not helped, counted as hurt.
C24_RegressionRollsBackAndTeaches ==
    [][ \A m \in MetricsLongSet :
           ( /\ OnEvent(m, None)
             /\ Len(awaiting_outcome) = 1
             /\ awaiting_outcome[1].method = "execute"
             /\ baseline_metrics # None
             /\ baseline_metrics.success_rate - m.success_rate >= 8 )
           => LET action == awaiting_outcome[1].action
              IN /\ active_actions' = <<>>
                 /\ baseline_metrics' = None
                 /\ Len(rollback_log') = Len(rollback_log) + Len(active_actions)
                 /\ Len(active_actions) >= 1
                 /\ last_written_action_key' = << action.action_type, action.target,
                                                  "rolled_back" >>
                 /\ Len(outcomes') = Len(outcomes) + 1
                 /\ outcomes'[Len(outcomes')].action = action
                 /\ outcomes'[Len(outcomes')].rollback_applied
                 /\ ~outcomes'[Len(outcomes')].helped
                 /\ HurtCount(action_stats', action.action_type)
                       = HurtCount(action_stats, action.action_type) + 1 ]_vars

\* an auto-executed reroute was rolled back on the next event for a drop of
\* the success rate and recorded by the Learner
C24_Witness ==
    /\ awaiting_outcome = <<>>
    /\ outcomes # <<>>
    /\ outcomes[Len(outcomes)].rollback_applied
    /\ outcomes[Len(outcomes)].action.action_type = REROUTE
    /\ outcomes[Len(outcomes)].context_snapshot.success_rate
          - outcomes[Len(outcomes)].outcome_metrics.success_rate >= 8
    /\ HurtCount(action_stats, REROUTE) >= 1
    /\ rollback_log # <<>>
    /\ rollback_log[Len(rollback_log)].success_drop
    /\ active_actions = <<>>
    /\ baseline_metrics = None
    /\ last_written_action_key = << REROUTE, "HDFC", "rolled_back" >>

-----------------------------------------------------------------------------
\* The actions the controlled system was told to apply are the tracked ones,
\* in order, and a tracked action has a baseline
AppliedIsTracked ==
    /\ Len(controlled) = Len(active_actions)
    /\ \A i \in 1..Len(controlled) :
          controlled[i] = Command(active_actions[i].action_type, active_actions[i])
    /\ active_actions # <<>> => baseline_metrics # None

\* C25: wherever the control thread stops inside execute() or
\* check_and_apply_approval(), and after the new run that follows the stop,
\* the actions applied to the controlled system are exactly the actions
\* tracked as active with a baseline: none is applied and untracked, none
\* is tracked and not applied.
C25_StopLeavesNoHalfAppliedAction ==
    (pc = "stopped" \/ call = None) => AppliedIsTracked

-----------------------------------------------------------------------------
\* C26: Agent.run leaves its loop only by dequeuing the sentinel; a cycle
\* started by an event always comes back to the next dequeue, whatever the
\* poll and the decision did; and once the sentinel is on the queue the loop
\* eventually ends.
C26_LoopEndsOnSentinelOnly ==
    /\ [][pc # "done" /\ pc' = "done" =>
            /\ pc = "get"
            /\ event_queue # <<>>
            /\ Head(event_queue) = Sentinel]_vars
    /\ (pc \in {"poll", "decide"}) ~> (pc = "get")
    /\ SentinelEnqueued ~> (pc = "done")

\* the loop has ended after a run with a decision cycle and an applied action
C26_Witness ==
    /\ pc = "done"
    /\ event_queue = <<>>
    /\ cycle_count >= 1
    /\ active_actions # <<>>

-----------------------------------------------------------------------------
\* The stage of the escalation slot: none without an escalation in memory,
\* pending while the persisted record is undecided, decided once its status
\* is approved or rejected
SlotStage ==
    IF pending_escalation = None THEN "none"
    ELSE IF pending_approval_file = None \/ pending_approval_file.status = "pending"
    THEN "pending"
    ELSE "decided"

SlotMoves == { << "none", "pending" >>, << "pending", "decided" >>, << "decided", "none" >> }

\* the poll of the approval in a cycle
CyclePolled == \E read1_ok, read2_ok \in BOOLEAN : Poll(read1_ok, read2_ok)

\* the poll of the approval on the empty queue
TimeoutPolled == \E read1_ok, read2_ok \in BOOLEAN : OnTimeout(read1_ok, read2_ok)

\* C27: the escalation slot moves only none -> pending -> approved or
\* rejected -> none.  A poll that finds the persisted status approved or
\* rejected clears the slot; a cycle that finds the slot pending stays frozen
\* and keeps it; a cycle that finds no escalation goes on to decide().
C27_EscalationSlotLifecycle ==
    [][/\ SlotStage' # SlotStage => << SlotStage, SlotStage' >> \in SlotMoves
       /\ (CyclePolled \/ TimeoutPolled) /\ SlotStage = "decided" => SlotStage' = "none"
       /\ CyclePolled /\ SlotStage = "pending" => SlotStage' = "pending" /\ pc' = "get"
       /\ CyclePolled /\ SlotStage = "none" => pc' = "decide"]_vars

-----------------------------------------------------------------------------
\* C28: whatever the reader's _read_json returns while the control loop
\* writes a record is the complete record published before the write or the
\* complete record being written, on every path of _write_json.
C28_ReaderSeesCompleteRecord ==
    read_result # None => read_result.data \in { read_result.previous, read_result.next }

-----------------------------------------------------------------------------
\* C29: after any sequence of ingest calls the buffer is the most recent
\* min(k, window_size) of the k events ingested, in arrival order; it is
\* never longer than window_size and the oldest event is dropped first.
C29_BufferHoldsMostRecentEvents ==
    /\ Len(buffer) = Min(Len(ingested), window_size)
    /\ Len(buffer) <= window_size
    /\ \A i \in 1..Len(buffer) : buffer[i] = ingested[Len(ingested) - Len(buffer) + i]

\* more events than the window holds have been ingested, so the oldest were
\* dropped
C29_Witness ==
    /\ Len(ingested) > window_size + 1
    /\ Len(buffer) = window_size
    /\ buffer[1].id = Len(ingested) - window_size + 1

\* C30: on a non-empty buffer of n events the p95 latency reported is the
\* element at index floor(n * 0.95) of the latencies sorted ascending
\* (indices from 0).
C30_P95IsElementAtFloorIndex ==
    (fn_in # None /\ fn_in.events # <<>>) =>
        LET n == Len(fn_in.events)
            sorted_lat == sorted([i \in 1..n |-> fn_in.events[i].latency_ms])
        IN fn_out.value = sorted_lat[Max(0, (n * P95_FRACTION) \div 100) + 1]

-----------------------------------------------------------------------------
\* C31: reason() returns the external answer only when that answer exists and
\* has confidence > 0; with no answer (the source failed or is not configured)
\* or confidence <= 0 the result is the deterministic hypothesis of the same
\* metrics; an answer without uncertainty comes back with the uncertainty
\* _compute_uncertainty gives for its cause, confidence and evidence, and with
\* cause, confidence, evidence and source as the source gave them.
C31_ExternalAnswerOnlyWithPositiveConfidence ==
    (fn_in # None /\ fn_in.fn = "reason" /\ fn_out # None) =>
        LET m == fn_in.m
            a == fn_in.llm_h
        IN IF a = None
           THEN fn_out = heuristic_hypothesis(m)
           ELSE IF a.confidence <= 0
           THEN fn_out = heuristic_hypothesis(m)
           ELSE /\ fn_out.cause = a.cause
                /\ fn_out.confidence = a.confidence
                /\ fn_out.evidence = a.evidence
                /\ fn_out.source = a.source
                /\ fn_out.uncertainty =
                     IF a.uncertainty = -1
                     THEN compute_uncertainty(a.cause, a.confidence, << a.evidence >>, m)
                     ELSE a.uncertainty

\* reason() has discarded an answer of confidence 0 whose cause differs from
\* the deterministic one
C31_Witness ==
    /\ fn_in # None /\ fn_in.fn = "reason" /\ fn_out # None
    /\ fn_in.llm_h # None
    /\ fn_in.llm_h.confidence = 0
    /\ fn_in.m.sample_count >= MIN_SAMPLE_FOR_ACT
    /\ fn_out.source = "heuristic"
    /\ fn_out.cause # fn_in.llm_h.cause

-----------------------------------------------------------------------------
\* The two retry storm labels of the reasoner
RetryStormCauses == { "Retry_Storm", "Retry_Storm_Detected" }

\* retry or attempt amplification and the success rate jointly indicate a
\* retry storm (the conditions of the two retry storm branches)
RetryStormIndicated(m) ==
    \/ m.retry_amplification >= RETRY_AMPLIFICATION_STORM /\ m.success_rate < 70
    \/ m.attempt_amplification >= ATTEMPT_AMPLIFICATION_STORM /\ m.success_rate < 80

IssuerDegraded(m) ==
    /\ DOMAIN m.success_rate_by_issuer # {}
    /\ m.success_rate_by_issuer[WorstKey(m.success_rate_by_issuer)]
         < SUCCESS_RATE_DEGRADATION_THRESHOLD

\* the causes the stated priority allows for a window of at least
\* MIN_SAMPLE_FOR_ACT samples
PriorityCauses(m) ==
    IF RetryStormIndicated(m) THEN RetryStormCauses
    ELSE IF IssuerDegraded(m) THEN { IssuerCause(WorstKey(m.success_rate_by_issuer)) }
    ELSE IF m.p95_latency_ms >= P95_LATENCY_SPIKE_MS THEN { "Latency_Spike" }
    ELSE IF m.success_rate < SUCCESS_RATE_DEGRADATION_THRESHOLD THEN { "General_Degradation" }
    ELSE { CAUSE_INSUFFICIENT_SIGNAL }

-----------------------------------------------------------------------------
\* the class _evaluate_helped gave outcome record r when it was recorded
OutcomeClass(r) ==
    ScoreClass(evaluate_helped(r.context_snapshot, r.outcome_metrics,
                               r.rollback_applied).learning_score)

\* C33: the helped / hurt / neutral counts over the recent outcomes add up to
\* the number of outcomes considered, and each count is the number of recent
\* outcomes of that class: hurt counts the outcomes rolled back and the ones
\* with cost or retry harm, helped the ones that helped, neutral the rest.
C33_SummaryCountsOwnClassification ==
    LET recent == get_recent_outcomes(Learner, LEARNING_STATE_RECENT)
        summary == get_learning_state(Learner)
    IN /\ summary.helped + summary.hurt + summary.neutral = Len(recent)
       /\ \A class \in { "helped", "hurt", "neutral" } :
             summary[class] = Cardinality({ i \in DOMAIN recent : OutcomeClass(recent[i]) = class })

-----------------------------------------------------------------------------
\* the recent-decision entries in which the target occurs: as the target of
\* the entry, or named by the cause of an entry without target
Occurrences(causes, target) ==
    Cardinality({ i \in DOMAIN causes :
                    \/ causes[i].target = target
                    \/ causes[i].target = NoTarget /\ RawContains(causes[i].cause, target) })

\* confidences 0, 0.05, ..., 1
ConfidenceGrid == { 50 * k : k \in 0..20 }

\* the base term of the risk, in millionths: base * (1 - 0.4 * confidence)
BaseTerm(action_type, confidence) == BaseRisk(action_type) * (10000 - 4 * confidence)

\* C34: the risk of the action decide() returns is within [0, 1] and 0 for a
\* no-op; the base risk is ordered retry-policy < reroute < suppress and its
\* term does not increase with the confidence; the accumulation term is 0 for
\* at most one occurrence of the target among the last five recent entries,
\* 0.08 per further occurrence, and at most 0.25.
C34_RiskWithinBoundsAndAccumulationCapped ==
    (fn_in # None /\ fn_in.fn = "decide" /\ fn_out # None /\ fn_in.h.cause # NoCause) =>
        LET a == fn_out.action
            occ == IF a.target = NoTarget THEN 0
                   ELSE Occurrences(LastN(fn_in.context.recent_causes, 5), a.target)
            acc == compute_risk_accumulation(a.target, fn_in.context)
        IN /\ a.risk_score >= 0 /\ a.risk_score <= 1000000
           /\ fn_out.risk_score = a.risk_score
           /\ a.action_type = NO_OP => a.risk_score = 0
           /\ BaseRisk(RETRY_POLICY) < BaseRisk(REROUTE)
           /\ BaseRisk(REROUTE) < BaseRisk(SUPPRESS)
           /\ \A c \in ConfidenceGrid :
                 /\ c >= fn_in.h.confidence =>
                       BaseTerm(a.action_type, c) <= BaseTerm(a.action_type, fn_in.h.confidence)
                 /\ c <= fn_in.h.confidence =>
                       BaseTerm(a.action_type, c) >= BaseTerm(a.action_type, fn_in.h.confidence)
           /\ acc = (IF occ <= 1 THEN 0 ELSE Min(25, 8 * (occ - 1)))
           /\ acc <= 25
           /\ a.action_type # NO_OP =>
                 a.risk_score = BaseTerm(a.action_type, fn_in.h.confidence) + acc * 10000

\* decide() has returned a reroute whose target occurs in all of the last five
\* entries: the accumulation is at its cap
C34_Witness ==
    /\ fn_in # None /\ fn_in.fn = "decide" /\ fn_out # None
    /\ fn_out.action.action_type = REROUTE
    /\ Len(fn_in.context.recent_causes) > 5
    /\ Occurrences(LastN(fn_in.context.recent_causes, 5), fn_out.action.target) = 5
    /\ fn_out.action.risk_score = BaseTerm(REROUTE, fn_in.h.confidence) + 250000

-----------------------------------------------------------------------------
EntryKey(e) == WrittenKey(e.action_type, e.target, e.outcome)

LastEntry(file) == file.history[Len(file.history)]

\* this run has appended an entry (the entries of earlier runs carry ts 0)
RunHasAppended(file) == file.history # <<>> /\ LastEntry(file).ts > 0

\* C35: the decision history never holds more than 50 entries; an entry the
\* run appends never has the (kind, target, outcome) of the entry the run
\* appended last; and every cycle that decides rewrites the latest-decision
\* record, whether or not it appends.
C35_HistoryBoundedAndDeduplicated ==
    /\ [](Len(actions_file.history) <= 50)
    /\ [][ /\ (actions_file'.history # actions_file.history /\ RunHasAppended(actions_file)) =>
                EntryKey(LastEntry(actions_file')) # EntryKey(LastEntry(actions_file))
           /\ cycle_count' = cycle_count + 1 =>
                /\ actions_file'.latest # None
                /\ actions_file'.latest.ts = cycle_count'
                /\ actions_file'.history # actions_file.history =>
                      LastEntry(actions_file') = actions_file'.latest
         ]_vars

\* the history is at its limit, and the third cycle of the run has repeated
\* the outcome of the entry appended last: the latest record is the third
\* cycle's, the last history entry is older
C35_Witness ==
    /\ Len(actions_file.history) = MAX_ACTIONS_HISTORY
    /\ RunHasAppended(actions_file)
    /\ actions_file.latest.ts = MaxHistoryCycles
    /\ LastEntry(actions_file).ts < actions_file.latest.ts
    /\ EntryKey(LastEntry(actions_file)) = EntryKey(actions_file.latest)
    /\ actions_file.history[1].ts = 0

-----------------------------------------------------------------------------
\* C36: if check_and_apply_approval applied an action (kind, target) in cycle
\* c, or on the empty-queue path at cycle count c, every run_cycle in cycles
\* c+1 and c+2 whose decision proposes the identical (kind, target) reports
\* skipped_cooldown and does not call execute().
C36_ApprovalStartsCycleDebounce ==
    [][ \A e \in exec_history :
           ( /\ ProposalHandled
             /\ e.method = "approval"
             /\ ActionKey(Proposal.action) = e.key
             /\ cycle_count - e.cycle \in 1..COOLDOWN_CYCLES )
           => ReportedSkipped ]_vars

-----------------------------------------------------------------------------
\* C37: in every state of the run loop, when the set of active actions is
\* not empty a baseline is stored.
C37_ActiveImpliesBaseline ==
    active_actions # <<>> => baseline_metrics # None

-----------------------------------------------------------------------------
\* C38: the action a poll applies on approval has the kind and the target of
\* the escalation the Executor holds as pending when the poll is made,
\* whatever the dashboard read and wrote in between.
C38_AppliedActionIsThePendingOne ==
    [][ \A read1_ok, read2_ok \in BOOLEAN :
           PollCalled(read1_ok, read2_ok) =>
              LET r == check_and_apply_approval(World, PolledMetrics, read1_ok, read2_ok)
              IN (r.processed /\ r.msg = "APPROVED" /\ r.action # None) =>
                    /\ pending_escalation # None
                    /\ r.action.action_type = pending_escalation.action_type
                    /\ r.action.target = pending_escalation.target
      ]_vars

-----------------------------------------------------------------------------
\* C39: the rollback count of a run never decreases; once it has reached 2,
\* every proposal decide() returns that is not a no-op requires human
\* approval, run_cycle's call of execute() applies nothing, and an action is
\* applied only by a poll that finds its escalation approved.
C39_TwoRollbacksLockHumanApproval ==
    [][ /\ Len(rollback_log') >= Len(rollback_log)
        /\ Len(rollback_log) >= 2 =>
              /\ ProposalHandled =>
                    /\ Proposal.action.requires_human_approval
                    /\ active_actions' = active_actions
              /\ Len(active_actions') > Len(active_actions) =>
                    /\ pc # "decide"
                    /\ pending_approval_file # None
                    /\ pending_approval_file.status = "approved"
      ]_vars

\* after two rollbacks a reroute was proposed again and escalated: it is
\* pending, nothing is active
C39_Witness ==
    /\ Len(rollback_log) >= 2
    /\ active_actions = <<>>
    /\ pending_escalation # None
    /\ pending_escalation.action_type = REROUTE
    /\ pending_escalation.reason = "Human approval required (cost/retry guardrail)"
    /\ last_written_action_key = WrittenKey(REROUTE, "HDFC", OUTCOME_BLOCKED)


\* C40: the metrics of an event are compared with the baseline exactly when
\* an action was executed or applied on approval since the previous event.
\* An event that follows no application changes neither the active actions
\* nor the baseline nor the rollback log, whatever its metrics; a comparison
\* that finds no regression keeps the active actions; one that finds a
\* regression reverts every active action, the older ones included, with one
\* rollback entry each.
C40_RegressionCheckedOncePerAppliedAction ==
    [][ \A m \in MetricsLongSet, llm_h \in LlmAnswers :
          OnEvent(m, llm_h) =>
             LET r == check_rollback(World, m)
             IN /\ pending_outcome <=> awaiting_outcome # <<>>
                /\ ~pending_outcome =>
                      UNCHANGED << active_actions, baseline_metrics, rollback_log >>
                /\ (pending_outcome /\ r.rollbacks = <<>>) =>
                      UNCHANGED << active_actions, baseline_metrics, rollback_log >>
                /\ (pending_outcome /\ r.rollbacks # <<>>) =>
                      /\ active_actions' = <<>>
                      /\ Len(r.rollbacks) = Len(active_actions)
                      /\ rollback_log' = rollback_log \o r.rollbacks
      ]_vars

\* C40 witness: an action that stayed active after its own comparison is
\* still active when a second action has just been applied and awaits the
\* next event.
C40_Witness ==
    /\ pc = "get"
    /\ Len(active_actions) = 2
    /\ pending_outcome
    /\ Len(awaiting_outcome) = 1
    /\ awaiting_outcome[1].action = active_actions[2]
    /\ baseline_metrics # None

====
